---- MODULE Spec2Model ----
(***************************************************************************)
(* A model of sparkplug-rs: the topic grammar (src/src/topic.rs), the      *)
(* publisher's birth/death/sequence bookkeeping (src/src/publisher.rs and  *)
(* the C library behind it), the node tracker of the torture-test          *)
(* subscriber (src/examples/torture_test_subscriber.rs), the payload       *)
(* builder and reader (src/src/payload.rs) and the monitor's node map      *)
(* (src/examples/ot_subscriber.rs).                                        *)
(*                                                                         *)
(* A string is a sequence of symbols.  A symbol is either the separator    *)
(* "/" or a slash-free chunk of characters; an Option<T> is a sequence of  *)
(* length 0 (None) or 1 (Some).                                            *)
(***************************************************************************)
EXTENDS Integers, Sequences, FiniteSets, TLC

VARIABLES
    \* ---- topic grammar -------------------------------------------------
    topic,              \* the &str handed to ParsedTopic::parse
    parsed,             \* Option<Result<ParsedTopic>>: the value parse returned
    rendered,           \* Option<String>: the value to_topic_string returned
    \* ---- publisher -----------------------------------------------------
    pub_seq,            \* the publisher's seq counter (what seq() returns)
    pub_bd_seq,         \* the publisher's bdSeq counter (what bd_seq() returns)
    pub_born,           \* lastBirthSent: an NBIRTH was published
    pub_call,           \* the last publisher call and what it put on the wire
    pub_since_birth,    \* NDATA published since the latest NBIRTH
    pub_devices,        \* the device ids whose DBIRTH was published
    pub_device_sent,    \* device messages handed to the transport so far
    \* ---- node tracker --------------------------------------------------
    node_stats,         \* HashMap<String, NodeStats>, a function on its keys
    messages_received,  \* AtomicI64 messages_received
    sequence_errors,    \* AtomicI64 sequence_errors
    nodes_to_wake,      \* check_sleeping_nodes: the Vec built by its scan
    sweep_pc,           \* check_sleeping_nodes: where the main thread stands
    sweep_age,          \* whole seconds since the running sweep took `now`
    last_cmd,           \* the command the latest step handed to the transport
    last_msg,           \* the message the latest step handled
    profile,            \* the build: overflow checks on (debug) or off (release)
    panicked,           \* the main thread panicked (arithmetic overflow)
    \* ---- payload ------------------------------------------------------
    builder,            \* the sparkplug_payload_t a PayloadBuilder owns
    pb_log,             \* what the caller set and added with success
    pb_call,            \* the last PayloadBuilder call and its result
    data,               \* Option<Vec<u8>>: the bytes for Payload::parse
    payload,            \* Option<Result<Payload>>: what parse returned
    pl_read,            \* the last Payload call and its result
    iter,               \* Option<MetricIterator>: the latest metrics()
    iter_items,         \* what next() returned since the latest metrics()
    utf8_validated,     \* the codec rejects strings that are no UTF-8
    \* ---- monitor ------------------------------------------------------
    mon_nodes,          \* HashMap<String, NodeState>, a function on its keys
    mon_log,            \* the messages handle_message was given, in order
    \* ---- connections --------------------------------------------------
    conn_sub,           \* Option<Subscriber> the program holds
    conn_pub,           \* Option<Publisher> the program holds
    cb_phase,           \* where each callback wrapper of the subscriber is
    cb_log,             \* the callbacks the transport dispatched, in order
    disc_log,           \* the disconnect calls that returned, in order
    \* ---- publisher program and link ----------------------------------
    run_pc,             \* where the publisher's run loop is
    do_rebirth,         \* the AtomicBool the command callback sets
    run_log,            \* commands received and births published, in order
    wire                \* published messages the tracker has not handled yet

topicVars == <<topic, parsed, rendered>>
pubVars   == <<pub_seq, pub_bd_seq, pub_born, pub_call, pub_since_birth,
               pub_devices, pub_device_sent>>
trackVars == <<node_stats, messages_received, sequence_errors, nodes_to_wake,
               sweep_pc, sweep_age, last_cmd, last_msg, profile, panicked>>
payVars   == <<builder, pb_log, pb_call, data, payload, pl_read, iter,
               iter_items, utf8_validated>>
monVars   == <<mon_nodes, mon_log>>
connVars  == <<conn_sub, conn_pub, cb_phase, cb_log, disc_log>>
progVars  == <<run_pc, do_rebirth, run_log, wire>>
vars      == <<topicVars, pubVars, trackVars, payVars, monVars, connVars, progVars>>

None    == <<>>
Some(x) == <<x>>

(***************************************************************************)
(* Topic grammar                                                           *)
(***************************************************************************)

\* One more than the number of segments a topic may carry past the fourth.
MaxExtra == 2

Slash     == "/"
EmptySeg  == <<>>
Namespace == <<"spBv1.0">>

\* MessageType::as_str: the token of each message type.
as_str(mt) ==
    CASE mt = "NBirth" -> <<"NBIRTH">>
      [] mt = "NDeath" -> <<"NDEATH">>
      [] mt = "NData"  -> <<"NDATA">>
      [] mt = "NCmd"   -> <<"NCMD">>
      [] mt = "DBirth" -> <<"DBIRTH">>
      [] mt = "DDeath" -> <<"DDEATH">>
      [] mt = "DData"  -> <<"DDATA">>
      [] mt = "DCmd"   -> <<"DCMD">>
      [] mt = "State"  -> <<"STATE">>

MessageType == {"NBirth", "NDeath", "NData", "NCmd",
                "DBirth", "DDeath", "DData", "DCmd", "State"}

\* <MessageType as FromStr>::from_str: Some(type), or None for the Err arm.
from_str(s) ==
    CASE s = <<"NBIRTH">> -> Some("NBirth")
      [] s = <<"NDEATH">> -> Some("NDeath")
      [] s = <<"NDATA">>  -> Some("NData")
      [] s = <<"NCMD">>   -> Some("NCmd")
      [] s = <<"DBIRTH">> -> Some("DBirth")
      [] s = <<"DDEATH">> -> Some("DDeath")
      [] s = <<"DDATA">>  -> Some("DData")
      [] s = <<"DCMD">>   -> Some("DCmd")
      [] s = <<"STATE">>  -> Some("State")
      [] OTHER            -> None

is_node_message(mt)   == mt \in {"NBirth", "NDeath", "NData", "NCmd"}
is_device_message(mt) == mt \in {"DBirth", "DDeath", "DData", "DCmd"}
is_birth(mt)          == mt \in {"NBirth", "DBirth"}
is_death(mt)          == mt \in {"NDeath", "DDeath"}
\* A variant of is_data that also answers true for node commands.
is_data_or_node_command(mt) == mt \in {"NData", "DData", "NCmd"}
is_data(mt)           == mt \in {"NData", "DData"}
is_command(mt)        == mt \in {"NCmd", "DCmd"}

\* str::split('/'): the slash-free runs of s, in order; "" splits into [""].
RECURSIVE SplitFrom(_, _, _, _)
SplitFrom(s, i, cur, acc) ==
    IF i > Len(s) THEN Append(acc, cur)
    ELSE IF s[i] = Slash THEN SplitFrom(s, i + 1, <<>>, Append(acc, cur))
    ELSE SplitFrom(s, i + 1, Append(cur, s[i]), acc)

split(s) == SplitFrom(s, 1, <<>>, <<>>)

\* format!("a/{}/{}...", ...): the pieces joined by the separator.
RECURSIVE JoinSlash(_)
JoinSlash(segs) ==
    IF Len(segs) = 0 THEN <<>>
    ELSE IF Len(segs) = 1 THEN segs[1]
    ELSE segs[1] \o <<Slash>> \o JoinSlash(Tail(segs))

Ok(v)            == [ok |-> TRUE, val |-> v, reason |-> "none"]
InvalidTopic(r)  == [ok |-> FALSE, val |-> [kind |-> "none"], reason |-> r]

SparkplugTopic(mt, g, n, d) ==
    [kind |-> "Sparkplug", message_type |-> mt, group_id |-> g,
     edge_node_id |-> n, device_id |-> d]
StateTopic(h) == [kind |-> "State", host_id |-> h]

\* parse that returns a best-effort topic when a device-level topic has no
\* device id, instead of the error.
parse_best_effort(t) ==
    LET parts == split(t) IN
    IF Len(parts) = 2 /\ parts[1] = <<"STATE">> THEN Ok(StateTopic(parts[2]))
    ELSE IF Len(parts) < 4 THEN InvalidTopic("too few parts")
    ELSE IF parts[1] # Namespace THEN InvalidTopic("wrong namespace")
    ELSE
      LET group  == parts[2]
          mtype  == from_str(parts[3])
          node   == parts[4]
          device == IF Len(parts) >= 5 THEN Some(parts[5]) ELSE None
      IN  IF mtype = None THEN InvalidTopic("unknown message type")
          ELSE IF is_node_message(mtype[1]) /\ device # None
               THEN InvalidTopic("device_id forbidden")
          ELSE Ok(SparkplugTopic(mtype[1], group, node, device))

\* ParsedTopic::parse.  parts[k] of the source is parts[k + 1] here.
parse(t) ==
    LET parts == split(t) IN
    IF Len(parts) = 2 /\ parts[1] = <<"STATE">> THEN Ok(StateTopic(parts[2]))
    ELSE IF Len(parts) < 4 THEN InvalidTopic("too few parts")
    ELSE IF parts[1] # Namespace THEN InvalidTopic("wrong namespace")
    ELSE
      LET group  == parts[2]
          mtype  == from_str(parts[3])
          node   == parts[4]
          device == IF Len(parts) >= 5 THEN Some(parts[5]) ELSE None
      IN  IF mtype = None THEN InvalidTopic("unknown message type")
          ELSE IF is_device_message(mtype[1]) /\ device = None
               THEN InvalidTopic("device_id required")
          ELSE IF is_node_message(mtype[1]) /\ device # None
               THEN InvalidTopic("device_id forbidden")
          ELSE Ok(SparkplugTopic(mtype[1], group, node, device))

\* ParsedTopic::to_topic_string.
to_topic_string(p) ==
    IF p.kind = "Sparkplug"
    THEN IF p.device_id # None
         THEN JoinSlash(<<Namespace, p.group_id, as_str(p.message_type),
                          p.edge_node_id, p.device_id[1]>>)
         ELSE JoinSlash(<<Namespace, p.group_id, as_str(p.message_type),
                          p.edge_node_id>>)
    ELSE JoinSlash(<<<<"STATE">>, p.host_id>>)

\* edge_node_id reading the group field.
edge_node_id_from_group(p) ==
    IF p.kind = "Sparkplug" THEN Some(p.group_id) ELSE None

\* ParsedTopic's accessors.
message_type(p) == IF p.kind = "Sparkplug" THEN Some(p.message_type) ELSE None
group_id(p)     == IF p.kind = "Sparkplug" THEN Some(p.group_id) ELSE None
edge_node_id(p) == IF p.kind = "Sparkplug" THEN Some(p.edge_node_id) ELSE None
device_id(p)    == IF p.kind = "Sparkplug" THEN p.device_id ELSE None
host_id(p)      == IF p.kind = "State" THEN Some(p.host_id) ELSE None

\* The segments topics are drawn from.
HeadSegs == {EmptySeg, Namespace, <<"STATE">>, <<"NDATA">>, <<"DDATA">>, <<"g">>}
TailSegs == {EmptySeg, <<"d">>}
TypeSegs == {as_str(mt) : mt \in MessageType} \cup {<<"NDATA", "x">>, <<"ndata">>}

SeqsUpTo(S, lo, hi) == UNION {[1..n -> S] : n \in lo..hi}

TopicInputs ==
    {JoinSlash(h) : h \in SeqsUpTo(HeadSegs, 1, 4)}
    \cup {JoinSlash(h \o x) : h \in [1..4 -> HeadSegs],
                              x \in SeqsUpTo(TailSegs, 1, MaxExtra)}
    \cup {JoinSlash(<<Namespace, <<"g">>, ty, <<"n">>>> \o x) :
              ty \in TypeSegs, x \in SeqsUpTo(TailSegs, 0, MaxExtra)}
    \cup {<<"g", "g">>, <<Slash>>}

TopicIdle == topic = <<>> /\ parsed = None /\ rendered = None

(***************************************************************************)
(* Node tracker (examples/torture_test_subscriber.rs)                      *)
(*                                                                         *)
(* Time: an Instant is kept as the whole seconds elapsed since it was      *)
(* taken (what Instant::duration_since(..).as_secs() returns), saturating  *)
(* above the largest interval the sweep compares it with.                  *)
(***************************************************************************)

\* Messages the tracker is fed before the feed stops.
MaxMessages == 3
\* wake_attempt_count beyond which the model follows a node no further.
MaxWakeAttempts == 33
\* Seconds a publish_node_command call may take.
MaxSendDelay == 1

BackoffBase == 5
BackoffCap  == 60
AgeCap      == BackoffCap + 1

I32Bits == 32
U8Mod   == 256

\* The edge nodes that publish to the group.
Nodes == {<<"n1">>}

\* Two to the power k.
RECURSIVE Pow2(_)
Pow2(k) == IF k = 0 THEN 1 ELSE 2 * Pow2(k - 1)

I32Max == (Pow2(I32Bits - 2) - 1) + Pow2(I32Bits - 2)
I32Min == -I32Max - 1

\* a + b leaves the i32 range.
AddOverflows(a, b) ==
    \/ a > 0 /\ b > 0 /\ a > I32Max - b
    \/ a < 0 /\ b < 0 /\ a < I32Min - b

\* i32::wrapping_add: a + b reduced into the i32 range.
WrapAdd(a, b) ==
    IF a > 0 /\ b > 0 /\ a > I32Max - b THEN ((a - I32Max) + (b - I32Max)) - 2
    ELSE IF a < 0 /\ b < 0 /\ a < I32Min - b THEN ((a + I32Max) + (b + I32Max)) + 2
    ELSE a + b

\* i32::wrapping_mul by a small non-negative k.
RECURSIVE WrapMul(_, _)
WrapMul(k, x) == IF k = 0 THEN 0 ELSE WrapAdd(WrapMul(k - 1, x), x)

\* k * x leaves the i32 range.
MulOverflows(k, x) == \E j \in 1..k : AddOverflows(WrapMul(j - 1, x), x)

\* `1 << c` with overflow checks off: the shift amount is taken mod 32.
shl1(c) ==
    LET sh == c % I32Bits
    IN  IF sh = I32Bits - 1 THEN I32Min ELSE Pow2(sh)

\* `5 * (1 << wake_attempt_count)` overflows: the shift amount is not below
\* the width, or the product leaves the i32 range.
BackoffOverflows(c) ==
    \/ c >= I32Bits
    \/ MulOverflows(BackoffBase, shl1(c))

\* std::cmp::min(60, 5 * (1 << wake_attempt_count)), in wrapping arithmetic.
backoff_seconds(c) ==
    LET prod == WrapMul(BackoffBase, shl1(c))
    IN  IF prod < BackoffCap THEN prod ELSE BackoffCap

\* The backoff of every attempt count the model follows, computed once.
backoff_table == [c \in 0..MaxWakeAttempts |-> backoff_seconds(c)]

\* The attempt counts whose backoff overflows, computed once.
overflow_table == [c \in 0..MaxWakeAttempts |-> BackoffOverflows(c)]

\* `time_since_last >= backoff_seconds as u64`.  A negative i32 becomes a
\* u64 of at least 2^63, more seconds than any Instant is old.
waited_out(time_since_last, backoff) ==
    backoff >= 0 /\ time_since_last >= backoff

\* NodeStats::new.
NewNodeStats ==
    [birth_count |-> 0, death_count |-> 0, data_count |-> 0,
     current_bd_seq |-> 0, last_seq |-> 0, state |-> "Unknown",
     last_death_time |-> None, last_wake_attempt |-> None,
     wake_attempt_count |-> 0]

online(st)       == st.state = "Awake"
sleeping(st)     == st.state = "Sleeping"
wake_pending(st) == st.state = "WakePending"

\* Message::parse_topic.
parse_topic(msg) == parse(msg.topic)

\* Payload::seq of a parsed payload, with unwrap_or(0).
seq_or_0(p) == IF p.seq # None THEN p.seq[1] ELSE 0

\* The NBirth arm without the reset of wake_attempt_count.
on_nbirth_keeping_attempts(st, p) ==
    LET born == [st EXCEPT !.birth_count = @ + 1]
        bd   == IF p.bd_seq # None THEN p.bd_seq[1] ELSE 0
    IN  IF ~p.parse_ok THEN born
        ELSE [born EXCEPT
                !.last_seq = IF p.seq # None THEN p.seq[1] % U8Mod ELSE @,
                !.current_bd_seq = bd,
                !.state = "Awake"]

\* The NBirth arm that leaves last_seq as the previous session left it.
on_nbirth_keeping_seq(st, p) ==
    LET born == [st EXCEPT !.birth_count = @ + 1]
        bd   == IF p.bd_seq # None THEN p.bd_seq[1] ELSE 0
    IN  IF ~p.parse_ok THEN born
        ELSE [born EXCEPT
                !.current_bd_seq = bd,
                !.state = "Awake",
                !.wake_attempt_count = 0]

\* The NBirth arm of handle_message_static.
on_nbirth(st, p) ==
    LET born == [st EXCEPT !.birth_count = @ + 1]
        bd   == IF p.bd_seq # None THEN p.bd_seq[1] ELSE 0
    IN  IF ~p.parse_ok THEN born
        ELSE [born EXCEPT
                !.last_seq = IF p.seq # None THEN p.seq[1] % U8Mod ELSE @,
                !.current_bd_seq = bd,
                !.state = "Awake",
                !.wake_attempt_count = 0]

\* The NDeath arm of handle_message_static.
on_ndeath(st, p) ==
    [st EXCEPT !.death_count = @ + 1,
               !.state = "Sleeping",
               !.last_death_time = Some("now"),
               !.wake_attempt_count = 0]

\* The sequence check with a repeated seq tolerated.
seq_error_tolerating_duplicates(st, seq_u8) ==
    LET expected_seq == (st.last_seq + 1) % U8Mod
    IN  seq_u8 # expected_seq /\ seq_u8 # st.last_seq /\ st.last_seq # 255

\* The sequence check of the NData arm: a SEQUENCE ERROR is counted.
seq_error(st, seq_u8) ==
    LET expected_seq == (st.last_seq + 1) % U8Mod
    IN  seq_u8 # expected_seq /\ st.last_seq # 255

\* The NData arm that keeps last_seq when the seq is not the expected one.
on_ndata_holding_seq(st, p) ==
    LET seq_u8 == seq_or_0(p) % U8Mod IN
    IF ~p.parse_ok THEN st
    ELSE IF sleeping(st) \/ st.state = "Unknown"
    THEN [st EXCEPT !.state = "WakePending",
                    !.last_wake_attempt = Some(0),
                    !.wake_attempt_count = @ + 1]
    ELSE IF wake_pending(st) THEN st
    ELSE [st EXCEPT !.data_count = @ + 1,
                    !.last_seq = IF seq_u8 = (@ + 1) % U8Mod THEN seq_u8 ELSE @]

\* The NData arm of handle_message_static.
on_ndata(st, p) ==
    LET seq_u8 == seq_or_0(p) % U8Mod IN
    IF ~p.parse_ok THEN st
    ELSE IF sleeping(st) \/ st.state = "Unknown"
    THEN [st EXCEPT !.state = "WakePending",
                    !.last_wake_attempt = Some(0),
                    !.wake_attempt_count = @ + 1]
    ELSE IF wake_pending(st) THEN st
    ELSE IF ~online(st)
    THEN [st EXCEPT !.state = "WakePending",
                    !.last_wake_attempt = Some(0),
                    !.wake_attempt_count = @ + 1]
    ELSE [st EXCEPT !.data_count = @ + 1, !.last_seq = seq_u8]

\* Whether handling the NDATA adds one to sequence_errors.
ndata_counts_error(st, p) ==
    /\ p.parse_ok
    /\ online(st)
    /\ seq_error(st, seq_or_0(p) % U8Mod)

\* The match on msg_type in handle_message_static.
on_message(st, mt, p) ==
    CASE mt = "NBirth" -> on_nbirth(st, p)
      [] mt = "NDeath" -> on_ndeath(st, p)
      [] mt = "NData"  -> on_ndata(st, p)
      [] OTHER         -> st

\* stats_map.entry(key).or_insert_with(NodeStats::new).
entry_or_insert(map, k) ==
    IF k \in DOMAIN map THEN map
    ELSE [n \in DOMAIN map \cup {k} |-> IF n = k THEN NewNodeStats ELSE map[n]]

NoMsg == None
NoCmd == None

\* The payloads and topics messages are drawn from.
SeqValues == {0, 7, 8, 250, 252, 255, 263}
BdValues  == {1, 2}

Payload(ok, seq, bd) == [parse_ok |-> ok, seq |-> seq, bd_seq |-> bd]
Garbled == Payload(FALSE, None, None)

NodeTopic(ty, n) == JoinSlash(<<Namespace, <<"g">>, as_str(ty), n>>)
DeviceTopic(ty, n, d) == JoinSlash(<<Namespace, <<"g">>, as_str(ty), n, d>>)

Msg(t, p) == [topic |-> t, payload |-> p]

BirthMessages ==
    {Msg(NodeTopic("NBirth", n), p) :
        n \in Nodes,
        p \in {Garbled} \cup
              {Payload(TRUE, s, b) :
                  s \in {None, Some(7), Some(250), Some(255), Some(263)},
                  b \in {None} \cup {Some(v) : v \in BdValues}}}

DataMessages ==
    {Msg(NodeTopic("NData", n), p) :
        n \in Nodes,
        p \in {Garbled} \cup
              {Payload(TRUE, s, None) :
                  s \in {None} \cup {Some(v) : v \in SeqValues}}}

DeathMessages ==
    {Msg(NodeTopic("NDeath", n), p) :
        n \in Nodes,
        p \in {Garbled, Payload(TRUE, Some(1), None)}
              \cup {Payload(TRUE, None, Some(v)) : v \in BdValues}}

OtherMessages ==
    {Msg(t, Payload(TRUE, Some(0), None)) :
        t \in {NodeTopic(ty, n) : ty \in {"NCmd", "State"}, n \in Nodes}
              \cup {DeviceTopic(ty, n, <<"d">>) :
                      ty \in {"DBirth", "DData", "DDeath"}, n \in Nodes}
              \cup {JoinSlash(<<<<"STATE">>, <<"h">>>>),
                    JoinSlash(<<<<"g">>, <<"g">>>>)}}

Messages == BirthMessages \cup DataMessages \cup DeathMessages \cup OtherMessages

\* The messages fed to the tracker while the clock and the sweep run.
SweepMessages ==
    {Msg(NodeTopic("NBirth", n), Payload(TRUE, Some(0), Some(1))) : n \in Nodes}
    \cup {Msg(NodeTopic("NData", n), Payload(TRUE, Some(1), None)) : n \in Nodes}
    \cup {Msg(NodeTopic("NDeath", n), Payload(TRUE, None, None)) : n \in Nodes}

TrackerIdle ==
    /\ node_stats = <<>>
    /\ messages_received = 0
    /\ sequence_errors = 0
    /\ nodes_to_wake = <<>>
    /\ sweep_pc = "idle"
    /\ sweep_age = 0
    /\ last_cmd = NoCmd
    /\ last_msg = NoMsg
    /\ panicked = FALSE

\* The process is alive and no node has left the modelled range.
Running ==
    /\ ~panicked
    /\ \A n \in DOMAIN node_stats :
          node_stats[n].wake_attempt_count < MaxWakeAttempts

\* What the latest step handled: the message, and the state and last_seq
\* its node's entry had when the handler looked it up ("None": no entry).
Handled(msg, prev, prev_seq) ==
    Some([msg |-> msg, prev |-> prev, prev_seq |-> prev_seq])

\* handle_message_static keyed by whichever id the topic has: a STATE topic
\* gets an entry under its host id.
HandleMessageKeyedByAnyId(msg) ==
    /\ Running
    /\ messages_received < MaxMessages
    /\ messages_received' = messages_received + 1
    /\ last_cmd' = NoCmd
    /\ LET t == parse_topic(msg) IN
       IF t.ok
       THEN LET mt  == IF message_type(t.val) # None
                       THEN message_type(t.val)[1] ELSE "State"
                k   == IF edge_node_id(t.val) # None
                       THEN edge_node_id(t.val)[1] ELSE host_id(t.val)[1]
                map == entry_or_insert(node_stats, k)
            IN  /\ node_stats' = [map EXCEPT ![k] = on_message(map[k], mt, msg.payload)]
                /\ sequence_errors' =
                     IF mt = "NData" /\ ndata_counts_error(map[k], msg.payload)
                     THEN sequence_errors + 1 ELSE sequence_errors
                /\ last_msg' =
                     IF k \in DOMAIN node_stats
                     THEN Handled(msg, node_stats[k].state, node_stats[k].last_seq)
                     ELSE Handled(msg, "None", 0)
       ELSE /\ UNCHANGED <<node_stats, sequence_errors>>
            /\ last_msg' = Handled(msg, "None", 0)
    /\ UNCHANGED <<nodes_to_wake, sweep_pc, sweep_age, profile, panicked>>
    /\ UNCHANGED <<topicVars, pubVars, payVars, monVars, connVars, progVars>>

\* handle_message_static: what it does to the tracker's state.
handle_message_static(msg) ==
    /\ messages_received' = messages_received + 1
    /\ last_cmd' = NoCmd
    /\ LET t == parse_topic(msg) IN
       IF t.ok /\ message_type(t.val) # None /\ edge_node_id(t.val) # None
       THEN LET mt  == message_type(t.val)[1]
                k   == edge_node_id(t.val)[1]
                map == entry_or_insert(node_stats, k)
            IN  /\ node_stats' = [map EXCEPT ![k] = on_message(map[k], mt, msg.payload)]
                /\ sequence_errors' =
                     IF mt = "NData" /\ ndata_counts_error(map[k], msg.payload)
                     THEN sequence_errors + 1 ELSE sequence_errors
                /\ last_msg' =
                     IF k \in DOMAIN node_stats
                     THEN Handled(msg, node_stats[k].state, node_stats[k].last_seq)
                     ELSE Handled(msg, "None", 0)
       ELSE /\ UNCHANGED <<node_stats, sequence_errors>>
            /\ last_msg' = Handled(msg, "None", 0)
    /\ UNCHANGED <<nodes_to_wake, sweep_pc, sweep_age, profile, panicked>>

\* handle_message_static, run by the subscriber's callback thread.
HandleMessage(msg) ==
    /\ Running
    /\ messages_received < MaxMessages
    /\ handle_message_static(msg)
    /\ UNCHANGED <<topicVars, pubVars, payVars, monVars, connVars, progVars>>

Receive(M) == \E msg \in M : HandleMessage(msg)

\* check_sleeping_nodes, per entry: the entry is sleeping or wake_pending,
\* has a last_wake_attempt, and time_since_last >= backoff_seconds as u64.
due(st) ==
    /\ sleeping(st) \/ wake_pending(st)
    /\ st.last_wake_attempt # None
    /\ waited_out(st.last_wake_attempt[1], backoff_table[st.wake_attempt_count])

\* check_sleeping_nodes, per entry: what the scan leaves in the map.
scanned(st) ==
    IF due(st) /\ wake_pending(st) THEN [st EXCEPT !.state = "Sleeping"] ELSE st

\* The orders in which HashMap::iter_mut may visit the keys in D.
Orders(D) ==
    {o \in [1..Cardinality(D) -> D] : \A i, j \in DOMAIN o : i # j => o[i] # o[j]}

\* check_sleeping_nodes, first block: under the lock, time out the
\* wake-pending entries and collect the entries to wake.  With overflow
\* checks on, computing the backoff of an entry panics when it overflows.
SweepScan ==
    /\ Running
    /\ sweep_pc = "idle"
    /\ LET visited  == {n \in DOMAIN node_stats :
                          sleeping(node_stats[n]) \/ wake_pending(node_stats[n])}
           overflow == \E n \in visited :
                          overflow_table[node_stats[n].wake_attempt_count]
           D        == {n \in DOMAIN node_stats : due(node_stats[n])}
       IN  IF profile = "debug" /\ overflow
           THEN /\ panicked' = TRUE
                /\ UNCHANGED <<node_stats, nodes_to_wake, sweep_pc, sweep_age>>
           ELSE /\ panicked' = FALSE
                /\ node_stats' = [n \in DOMAIN node_stats |-> scanned(node_stats[n])]
                /\ \E o \in Orders(D) :
                     nodes_to_wake' =
                       [i \in DOMAIN o |->
                          [node    |-> o[i],
                           attempt |-> node_stats[o[i]].wake_attempt_count,
                           backoff |-> backoff_table[node_stats[o[i]].wake_attempt_count]]]
                /\ sweep_pc' = IF D = {} THEN "idle" ELSE "send"
                /\ sweep_age' = 0
    /\ last_cmd' = NoCmd
    /\ last_msg' = NoMsg
    /\ UNCHANGED <<messages_received, sequence_errors, profile>>
    /\ UNCHANGED <<topicVars, pubVars, payVars, monVars, connVars, progVars>>

\* send_rebirth_command: the NCMD handed to the command publisher, and
\* whether publish_node_command returned Ok.
RebirthCmd(n, ok) == Some([kind |-> "Rebirth", node |-> n, ok |-> ok])

\* check_sleeping_nodes, second block: send_rebirth_command(&node_id).
SweepSend ==
    /\ Running
    /\ sweep_pc = "send"
    /\ \E ok \in BOOLEAN : last_cmd' = RebirthCmd(Head(nodes_to_wake).node, ok)
    /\ sweep_pc' = "mark"
    /\ last_msg' = NoMsg
    /\ UNCHANGED <<node_stats, messages_received, sequence_errors, nodes_to_wake,
                   sweep_age, profile, panicked>>
    /\ UNCHANGED <<topicVars, pubVars, payVars, monVars, connVars, progVars>>

\* check_sleeping_nodes, second block: lock the map again and mark the node.
SweepMark ==
    /\ Running
    /\ sweep_pc = "mark"
    /\ LET n == Head(nodes_to_wake).node IN
       node_stats' =
         IF n \in DOMAIN node_stats
         THEN [node_stats EXCEPT ![n] =
                 [@ EXCEPT !.state = "WakePending",
                           !.last_wake_attempt = Some(sweep_age),
                           !.wake_attempt_count = @ + 1]]
         ELSE node_stats
    /\ nodes_to_wake' = Tail(nodes_to_wake)
    /\ sweep_pc' = IF Tail(nodes_to_wake) = <<>> THEN "idle" ELSE "send"
    /\ sweep_age' = IF Tail(nodes_to_wake) = <<>> THEN 0 ELSE sweep_age
    /\ last_cmd' = NoCmd
    /\ last_msg' = NoMsg
    /\ UNCHANGED <<messages_received, sequence_errors, profile, panicked>>
    /\ UNCHANGED <<topicVars, pubVars, payVars, monVars, connVars, progVars>>

older(a) == IF a < AgeCap THEN a + 1 ELSE AgeCap

\* One second passes.
Tick ==
    /\ Running
    /\ sweep_pc # "idle" => sweep_age < MaxSendDelay
    /\ node_stats' =
         [n \in DOMAIN node_stats |->
            IF node_stats[n].last_wake_attempt = None THEN node_stats[n]
            ELSE [node_stats[n] EXCEPT
                    !.last_wake_attempt = Some(older(@[1]))]]
    /\ sweep_age' = IF sweep_pc = "idle" THEN 0 ELSE older(sweep_age)
    /\ last_cmd' = NoCmd
    /\ last_msg' = NoMsg
    /\ UNCHANGED <<messages_received, sequence_errors, nodes_to_wake, sweep_pc,
                   profile, panicked>>
    /\ UNCHANGED <<topicVars, pubVars, payVars, monVars, connVars, progVars>>

(***************************************************************************)
(* Publisher (src/publisher.rs over the C library's publisher)             *)
(***************************************************************************)

\* NDATA published after one birth before the model stops publishing.
MaxData == 258
\* Rebirths before the model stops rebirthing.
MaxRebirths == 2

SeqMod == 256

\* The values bdSeq may start from.
InitBdSeqs == {0, 1}

PubIdle ==
    /\ pub_seq = 0
    /\ pub_born = FALSE
    /\ pub_call = None
    /\ pub_since_birth = 0
    /\ pub_devices = {}
    /\ pub_device_sent = 0

Call(op, ok, seq, bd) == Some([op |-> op, ok |-> ok, seq |-> seq, bd_seq |-> bd])

\* next_seq without the wrap at 256.
next_seq_unwrapped(seq) == seq + 1

\* The seq an NDATA published now carries.
next_seq(seq) == (seq + 1) % SeqMod

\* Publisher::publish_birth: NBIRTH with seq 0, carrying the current bdSeq.
publish_birth(ok) ==
    /\ pub_call' = Call("NBIRTH", ok, Some(0), Some(pub_bd_seq))
    /\ IF ok
       THEN /\ pub_seq' = 0
            /\ pub_born' = TRUE
       ELSE UNCHANGED <<pub_seq, pub_born>>
    /\ UNCHANGED <<pub_bd_seq, pub_devices>>

\* publish_data that advances seq before it knows the send succeeded.
publish_data_counting_failures(ok) ==
    /\ IF ~pub_born
       THEN /\ pub_call' = Call("NDATA", FALSE, None, None)
            /\ UNCHANGED pub_seq
       ELSE /\ pub_call' = Call("NDATA", ok, Some(next_seq(pub_seq)), None)
            /\ pub_seq' = next_seq(pub_seq)
    /\ UNCHANGED <<pub_bd_seq, pub_born, pub_devices>>

\* Publisher::publish_data: rejected before the first birth; otherwise
\* NDATA with the next seq, which the counter takes once the send succeeded.
publish_data(ok) ==
    /\ IF ~pub_born
       THEN /\ pub_call' = Call("NDATA", FALSE, None, None)
            /\ UNCHANGED pub_seq
       ELSE /\ pub_call' = Call("NDATA", ok, Some(next_seq(pub_seq)), None)
            /\ pub_seq' = IF ok THEN next_seq(pub_seq) ELSE pub_seq
    /\ UNCHANGED <<pub_bd_seq, pub_born, pub_devices>>

\* rebirth that publishes the new session but lets seq run on.
rebirth_keeping_seq(ok) ==
    /\ pub_call' = Call("REBIRTH", ok, Some(0), Some(pub_bd_seq + 1))
    /\ IF ok
       THEN /\ pub_bd_seq' = pub_bd_seq + 1
            /\ pub_born' = TRUE
            /\ UNCHANGED pub_seq
       ELSE UNCHANGED <<pub_bd_seq, pub_seq, pub_born>>
    /\ UNCHANGED pub_devices

\* Publisher::rebirth: NBIRTH of the next session (bdSeq + 1, seq 0).
rebirth(ok) ==
    /\ pub_call' = Call("REBIRTH", ok, Some(0), Some(pub_bd_seq + 1))
    /\ IF ok
       THEN /\ pub_bd_seq' = pub_bd_seq + 1
            /\ pub_seq' = 0
            /\ pub_born' = TRUE
       ELSE UNCHANGED <<pub_bd_seq, pub_seq, pub_born>>
    /\ UNCHANGED pub_devices

\* Publisher::publish_death: NDEATH carrying the bdSeq of the latest birth.
publish_death(ok) ==
    /\ pub_call' = Call("NDEATH", ok, None, Some(pub_bd_seq))
    /\ UNCHANGED <<pub_seq, pub_bd_seq, pub_born, pub_devices>>

\* The device ids the caller publishes under.
DeviceIds == {<<"d1">>, <<"d2">>}
\* Device messages sent before the model stops sending them.
MaxDeviceCalls == 2

DeviceCall(op, d, ok, seq) ==
    Some([op |-> op, device |-> d, ok |-> ok, seq |-> seq, bd_seq |-> None])

\* Publisher::publish_device_birth: rejected before the node's birth;
\* otherwise DBIRTH for d.  Whether a device message takes the next seq of
\* the node's counter is the library's choice: both outcomes are kept.
publish_device_birth(d, ok) ==
    /\ UNCHANGED <<pub_bd_seq, pub_born>>
    /\ IF ~pub_born
       THEN /\ pub_call' = DeviceCall("DBIRTH", d, FALSE, None)
            /\ UNCHANGED <<pub_seq, pub_devices>>
       ELSE /\ \E s \in {pub_seq, next_seq(pub_seq)} :
                  /\ pub_call' = DeviceCall("DBIRTH", d, ok, Some(s))
                  /\ pub_seq' = IF ok THEN s ELSE pub_seq
            /\ pub_devices' = IF ok THEN pub_devices \cup {d} ELSE pub_devices

\* publish_device_data that accepts data for d once any device was born.
publish_device_data_after_any_birth(d, ok) ==
    /\ UNCHANGED <<pub_bd_seq, pub_born, pub_devices>>
    /\ IF pub_devices = {}
       THEN /\ pub_call' = DeviceCall("DDATA", d, FALSE, None)
            /\ UNCHANGED pub_seq
       ELSE \E s \in {pub_seq, next_seq(pub_seq)} :
               /\ pub_call' = DeviceCall("DDATA", d, ok, Some(s))
               /\ pub_seq' = IF ok THEN s ELSE pub_seq

\* Publisher::publish_device_data: rejected unless d's DBIRTH was
\* published; otherwise DDATA for d.
publish_device_data(d, ok) ==
    /\ UNCHANGED <<pub_bd_seq, pub_born, pub_devices>>
    /\ IF d \notin pub_devices
       THEN /\ pub_call' = DeviceCall("DDATA", d, FALSE, None)
            /\ UNCHANGED pub_seq
       ELSE \E s \in {pub_seq, next_seq(pub_seq)} :
               /\ pub_call' = DeviceCall("DDATA", d, ok, Some(s))
               /\ pub_seq' = IF ok THEN s ELSE pub_seq

\* The count of NDATA published since the latest birth, after this call.
CountSinceBirth ==
    pub_since_birth' =
       IF pub_call'[1].ok /\ pub_call'[1].op \in {"NBIRTH", "REBIRTH"} THEN 0
       ELSE IF pub_call'[1].ok /\ pub_call'[1].op = "NDATA"
       THEN pub_since_birth + 1
       ELSE pub_since_birth

\* The count of device messages handed to the transport, after this call.
CountDeviceCalls ==
    IF pub_call'[1].seq # None
    THEN /\ pub_device_sent < MaxDeviceCalls
         /\ pub_device_sent' = pub_device_sent + 1
    ELSE UNCHANGED pub_device_sent

\* What a call on the publisher leaves alone.
OnlyPublisher ==
    UNCHANGED <<topicVars, trackVars, payVars, monVars, connVars, progVars>>

PublishBirth ==
    /\ \E ok \in BOOLEAN : publish_birth(ok)
    /\ CountSinceBirth /\ UNCHANGED pub_device_sent
    /\ OnlyPublisher

PublishData ==
    /\ pub_since_birth < MaxData
    /\ \E ok \in BOOLEAN : publish_data(ok)
    /\ CountSinceBirth /\ UNCHANGED pub_device_sent
    /\ OnlyPublisher

Rebirth ==
    /\ pub_bd_seq < MaxRebirths + 1
    /\ \E ok \in BOOLEAN : rebirth(ok)
    /\ CountSinceBirth /\ UNCHANGED pub_device_sent
    /\ OnlyPublisher

PublishDeath ==
    /\ \E ok \in BOOLEAN : publish_death(ok)
    /\ CountSinceBirth /\ UNCHANGED pub_device_sent
    /\ OnlyPublisher

PublishDeviceBirth ==
    /\ \E d \in DeviceIds, ok \in BOOLEAN : publish_device_birth(d, ok)
    /\ CountDeviceCalls /\ UNCHANGED pub_since_birth
    /\ OnlyPublisher

PublishDeviceData ==
    /\ \E d \in DeviceIds, ok \in BOOLEAN : publish_device_data(d, ok)
    /\ CountDeviceCalls /\ UNCHANGED pub_since_birth
    /\ OnlyPublisher

(***************************************************************************)
(* Topic grammar: the calls                                                *)
(***************************************************************************)

ParseTopic ==
    /\ parsed = None
    /\ parsed' = Some(parse(topic))
    /\ UNCHANGED <<topic, rendered>>
    /\ UNCHANGED <<pubVars, trackVars, payVars, monVars, connVars, progVars>>

RenderTopic ==
    /\ parsed # None
    /\ parsed[1].ok
    /\ rendered = None
    /\ rendered' = Some(to_topic_string(parsed[1].val))
    /\ UNCHANGED <<topic, parsed>>
    /\ UNCHANGED <<pubVars, trackVars, payVars, monVars, connVars, progVars>>

(***************************************************************************)
(* Payload builder and parsed payload (src/src/payload.rs)                 *)
(*                                                                         *)
(* PayloadBuilder and Payload wrap a sparkplug_payload_t of the C library: *)
(* the metric list, the encoding and the decoding live behind the FFI and  *)
(* are modelled from the contract of the codec; what the Rust code does    *)
(* around each FFI call is translated from payload.rs.                     *)
(*                                                                         *)
(* A string is a sequence of symbols: a chunk of one character, Nul (the   *)
(* byte 0), BadUtf8 (a byte that is no UTF-8) or Big (a run of BigLen      *)
(* characters).  A Vec<u8> is the sequence of the protobuf fields written  *)
(* in it, each with its length in bytes.                                   *)
(***************************************************************************)

\* The most metrics a builder is given and a received payload carries.
MaxMetrics == 2

\* The length in bytes of the run of characters Big stands for.
BigLen == 40000

MAX_PAYLOAD_SIZE == 65536

Nul     == "NUL"
BadUtf8 == "0xFF"
Big     == "BIG"

\* str::len: the length in bytes.
RECURSIVE StrLen(_)
StrLen(s) ==
    IF s = <<>> THEN 0
    ELSE (IF Head(s) = Big THEN BigLen ELSE 1) + StrLen(Tail(s))

\* Result<T, Error> of the payload API.
POk(v)  == [ok |-> TRUE, val |-> v, err |-> [kind |-> "none"]]
PErr(e) == [ok |-> FALSE, val |-> <<>>, err |-> e]

NulError       == [kind |-> "NulError"]
Utf8Error      == [kind |-> "Utf8Error"]
ParseFailed    == [kind |-> "ParseFailed"]
SerializeFailed(required) ==
    [kind |-> "SerializeFailed", required |-> required]
InvalidMetricIndex(index, count) ==
    [kind |-> "InvalidMetricIndex", index |-> index, count |-> count]

\* CString::new: Err(NulError) for an interior 0 byte, else the same bytes.
CString_new(s) ==
    IF \E i \in 1..Len(s) : s[i] = Nul THEN PErr(NulError) ELSE POk(s)

\* What reading a string that holds a 0 byte as a C string gives: the bytes
\* before the first one.
RECURSIVE UpToNul(_)
UpToNul(s) ==
    IF s = <<>> \/ Head(s) = Nul THEN <<>>
    ELSE <<Head(s)>> \o UpToNul(Tail(s))

\* CStr::from_ptr(..).to_str(): Err(Utf8Error) unless the bytes are UTF-8.
to_str(s) ==
    IF \E i \in 1..Len(s) : s[i] = BadUtf8 THEN PErr(Utf8Error)
    ELSE POk(UpToNul(s))

\* The value union of sparkplug_metric_t: one field per kind of value.
NoValue      == [int |-> 0, bool |-> FALSE, str |-> None]
IntValue(i)  == [NoValue EXCEPT !.int = i]
BoolValue(b) == [NoValue EXCEPT !.bool = b]
StrValue(s)  == [NoValue EXCEPT !.str = Some(s)]

\* sparkplug_metric_t; has_name, has_alias and has_timestamp are the
\* presence of the option.
RawMetric(name, alias, datatype, is_null, value) ==
    [name |-> name, alias |-> alias, timestamp |-> None,
     datatype |-> datatype, is_null |-> is_null, value |-> value]

\* The DataType variants.
DataTypes ==
    {"Unknown", "Int8", "Int16", "Int32", "Int64", "UInt8", "UInt16",
     "UInt32", "UInt64", "Float", "Double", "Boolean", "String", "DateTime",
     "Text"}

\* DataType::from: the variant of a wire datatype, Unknown for any other.
DataType_from(dt) == IF dt \in DataTypes \ {"Unknown"} THEN dt ELSE "Unknown"

\* MetricValue: the variant and what it carries.
MetricValue(variant, value) ==
    [variant |-> variant, int |-> value.int, bool |-> value.bool,
     str |-> value.str]
Null == MetricValue("Null", NoValue)

\* Metric.
Metric(name, alias, timestamp, datatype, value) ==
    [name |-> name, alias |-> alias, timestamp |-> timestamp,
     datatype |-> datatype, value |-> value]

\* ---- the C library: builder ---------------------------------------------

\* The time sparkplug_payload_create stamps a new payload with.
CreatedAt == 9

\* sparkplug_payload_create: no metric, no seq, the timestamp of its
\* creation (a new builder serializes to a non-empty encoding).
sparkplug_payload_create ==
    [timestamp |-> Some(CreatedAt), seq |-> None, metrics |-> <<>>]

\* sparkplug_payload_add_*: the metric goes to the end of the list.
sparkplug_payload_add(b, raw) == [b EXCEPT !.metrics = Append(@, raw)]

\* ---- PayloadBuilder -----------------------------------------------------

\* What a PayloadBuilder call leaves: the builder and the value returned.
Built(b, result) == [builder |-> b, result |-> result]

set_timestamp(b, t) == Built([b EXCEPT !.timestamp = Some(t)], POk(<<>>))
set_seq(b, s)       == Built([b EXCEPT !.seq = Some(s)], POk(<<>>))

\* A variant of add_by_name that hands the library the name as a C string
\* without looking for a 0 byte in it.
add_by_name_unchecked(b, datatype, name, value) ==
    Built(sparkplug_payload_add(b,
              RawMetric(Some(UpToNul(name)), None, datatype, FALSE, value)),
          POk(<<>>))

\* add_int8 .. add_bool: twelve methods of one shape, the datatype apart.
add_by_name(b, datatype, name, value) ==
    LET c_name == CString_new(name) IN
    IF ~c_name.ok THEN Built(b, PErr(c_name.err))
    ELSE Built(sparkplug_payload_add(b,
                   RawMetric(Some(c_name.val), None, datatype, FALSE, value)),
               POk(<<>>))

add_string(b, name, value) ==
    LET c_name  == CString_new(name)
        c_value == CString_new(value) IN
    IF ~c_name.ok THEN Built(b, PErr(c_name.err))
    ELSE IF ~c_value.ok THEN Built(b, PErr(c_value.err))
    ELSE Built(sparkplug_payload_add(b,
                   RawMetric(Some(c_name.val), None, "String", FALSE,
                             StrValue(c_value.val))),
               POk(<<>>))

\* A variant of add_with_alias that adds the metric by its name alone.
add_with_alias_dropped(b, datatype, name, alias, value) ==
    LET c_name == CString_new(name) IN
    IF ~c_name.ok THEN Built(b, PErr(c_name.err))
    ELSE Built(sparkplug_payload_add(b,
                   RawMetric(Some(c_name.val), None, datatype, FALSE, value)),
               POk(<<>>))

\* add_int32_with_alias .. add_bool_with_alias.
add_with_alias(b, datatype, name, alias, value) ==
    LET c_name == CString_new(name) IN
    IF ~c_name.ok THEN Built(b, PErr(c_name.err))
    ELSE Built(sparkplug_payload_add(b,
                   RawMetric(Some(c_name.val), Some(alias), datatype, FALSE,
                             value)),
               POk(<<>>))

\* add_int32_by_alias .. add_bool_by_alias: infallible.
add_by_alias(b, datatype, alias, value) ==
    Built(sparkplug_payload_add(b,
              RawMetric(None, Some(alias), datatype, FALSE, value)),
          POk(<<>>))

\* ---- the C library: codec -----------------------------------------------

\* A field of the encoding: its tag and its content, a number, a string or
\* a metric.
NoMetric          == RawMetric(None, None, "Unknown", TRUE, NoValue)
NumField(tag, n)  == [tag |-> tag, num |-> n, str |-> <<>>, metric |-> NoMetric]
StrField(tag, s)  == [tag |-> tag, num |-> 0, str |-> s, metric |-> NoMetric]
MetricField(raw)  == [tag |-> "metric", num |-> 0, str |-> <<>>, metric |-> raw]

\* n bytes that are no field of a Payload message, and n zeroes of a buffer.
Junk(n)    == NumField("junk", n)
Zeroes(n)  == NumField("zeroes", n)

ValueLen(raw) ==
    IF raw.is_null THEN 2
    ELSE IF raw.value.str # None THEN 2 + StrLen(raw.value.str[1])
    ELSE 9

MetricLen(raw) ==
    4 + (IF raw.name = None THEN 0 ELSE 2 + StrLen(raw.name[1]))
      + (IF raw.alias = None THEN 0 ELSE 3)
      + (IF raw.timestamp = None THEN 0 ELSE 9)
      + ValueLen(raw)

FieldLen(f) ==
    CASE f.tag = "timestamp" -> 9
      [] f.tag = "seq"       -> 3
      [] f.tag = "uuid"      -> 2 + StrLen(f.str)
      [] f.tag = "metric"    -> MetricLen(f.metric)
      [] OTHER               -> f.num

RECURSIVE ByteLen(_)
ByteLen(bytes) ==
    IF bytes = <<>> THEN 0 ELSE FieldLen(Head(bytes)) + ByteLen(Tail(bytes))

\* The encoding of a payload: timestamp, metrics in order, seq.
encode(b) ==
    (IF b.timestamp = None THEN <<>>
     ELSE <<NumField("timestamp", b.timestamp[1])>>)
    \o [k \in 1..Len(b.metrics) |-> MetricField(b.metrics[k])]
    \o (IF b.seq = None THEN <<>> ELSE <<NumField("seq", b.seq[1])>>)

\* sparkplug_payload_serialize: the encoding written at the front of the
\* buffer and its size, or 0 when the buffer is too small for it.
sparkplug_payload_serialize(b, buffer_len) ==
    LET enc == encode(b) IN
    IF ByteLen(enc) > buffer_len
    THEN [size |-> 0, buffer |-> <<Zeroes(buffer_len)>>]
    ELSE [size |-> ByteLen(enc),
          buffer |-> IF ByteLen(enc) = buffer_len THEN enc
                     ELSE enc \o <<Zeroes(buffer_len - ByteLen(enc))>>]

\* The last field of a tag, if any.
RECURSIVE LastOf(_, _)
LastOf(bytes, tag) ==
    IF bytes = <<>> THEN None
    ELSE IF bytes[Len(bytes)].tag = tag THEN Some(bytes[Len(bytes)])
    ELSE LastOf(SubSeq(bytes, 1, Len(bytes) - 1), tag)

NumOf(field) == IF field = None THEN None ELSE Some(field[1].num)
StrOf(field) == IF field = None THEN None ELSE Some(field[1].str)

IsMetricField(f) == f.tag = "metric"

\* sparkplug_payload_parse: null (None) unless every field is one of a
\* Payload and, where the codec validates UTF-8, every name is UTF-8.
sparkplug_payload_parse(bytes, validated) ==
    LET fields == SelectSeq(bytes, IsMetricField) IN
    IF \E k \in 1..Len(bytes) :
           bytes[k].tag \notin {"timestamp", "seq", "uuid", "metric"}
    THEN None
    ELSE IF validated /\ \E k \in 1..Len(fields) :
                 /\ fields[k].metric.name # None
                 /\ ~to_str(fields[k].metric.name[1]).ok
    THEN None
    ELSE Some([timestamp |-> NumOf(LastOf(bytes, "timestamp")),
               seq       |-> NumOf(LastOf(bytes, "seq")),
               uuid      |-> StrOf(LastOf(bytes, "uuid")),
               metrics   |-> [k \in 1..Len(fields) |-> fields[k].metric]])

\* ---- PayloadBuilder::serialize ------------------------------------------

\* Vec::truncate: the first n bytes.
RECURSIVE truncate(_, _)
truncate(buffer, n) ==
    IF n = 0 \/ buffer = <<>> THEN <<>>
    ELSE IF FieldLen(Head(buffer)) <= n
         THEN <<Head(buffer)>> \o truncate(Tail(buffer), n - FieldLen(Head(buffer)))
         ELSE IF Head(buffer).tag = "zeroes" THEN <<Zeroes(n)>> ELSE <<Junk(n)>>

\* A variant of serialize that returns the buffer whatever the size.
serialize_any_size(b) ==
    LET r == sparkplug_payload_serialize(b, MAX_PAYLOAD_SIZE) IN
    POk(truncate(r.buffer, r.size))

serialize(b) ==
    LET r == sparkplug_payload_serialize(b, MAX_PAYLOAD_SIZE) IN
    IF r.size = 0 THEN PErr(SerializeFailed(MAX_PAYLOAD_SIZE))
    ELSE POk(truncate(r.buffer, r.size))

\* ---- Payload ------------------------------------------------------------

Payload_parse(bytes, validated) ==
    LET inner == sparkplug_payload_parse(bytes, validated) IN
    IF inner = None THEN PErr(ParseFailed) ELSE POk(inner[1])

\* sparkplug_payload_get_timestamp / _get_seq: whether the field is there,
\* and the out parameter, written only when it is.
get_field(opt, out) ==
    IF opt = None THEN [present |-> FALSE, out |-> out]
    ELSE [present |-> TRUE, out |-> opt[1]]

\* A variant of timestamp that returns the out parameter in either case.
timestamp_or_default(p) == Some(get_field(p.timestamp, 0).out)

timestamp(p) ==
    LET r == get_field(p.timestamp, 0) IN
    IF r.present THEN Some(r.out) ELSE None

Payload_seq(p) ==
    LET r == get_field(p.seq, 0) IN
    IF r.present THEN Some(r.out) ELSE None

\* uuid: None for a null pointer and for bytes that are no UTF-8.
uuid(p) ==
    IF p.uuid = None THEN None
    ELSE LET s == to_str(p.uuid[1]) IN IF s.ok THEN Some(s.val) ELSE None

metric_count(p) == Len(p.metrics)

\* sparkplug_payload_get_metric_at: the metric, or failure past the end.
sparkplug_payload_get_metric_at(p, index) ==
    IF index < Len(p.metrics) THEN Some(p.metrics[index + 1]) ELSE None

\* The value of a raw metric, read by its datatype.
value_of(raw, datatype) ==
    IF raw.is_null THEN POk(Null)
    ELSE IF datatype \in {"Int8", "Int16", "Int32", "Int64",
                          "UInt8", "UInt16", "UInt32", "UInt64",
                          "Float", "Double"}
         THEN POk(MetricValue(datatype, IntValue(raw.value.int)))
    ELSE IF datatype = "Boolean"
         THEN POk(MetricValue("Boolean", BoolValue(raw.value.bool)))
    ELSE IF datatype \in {"String", "Text"}
         THEN IF raw.value.str = None THEN POk(Null)
              ELSE LET s == to_str(raw.value.str[1]) IN
                   IF s.ok THEN POk(MetricValue("String", StrValue(s.val)))
                   ELSE PErr(s.err)
    ELSE POk(Null)

\* The Metric built from a raw metric (metric_at, after its two checks).
read_metric(m) ==
    LET name     == IF m.name = None THEN POk(None)
                    ELSE LET s == to_str(m.name[1]) IN
                         IF s.ok THEN POk(Some(s.val)) ELSE s
        datatype == DataType_from(m.datatype)
        value    == value_of(m, datatype)
    IN  IF ~name.ok THEN PErr(name.err)
        ELSE IF ~value.ok THEN PErr(value.err)
        ELSE POk(Metric(name.val, m.alias, m.timestamp, datatype, value.val))

\* A variant of metric_at that reports the index where the count belongs.
metric_at_count_as_index(p, index) ==
    LET count == metric_count(p) IN
    IF index >= count THEN PErr(InvalidMetricIndex(index, index))
    ELSE LET raw == sparkplug_payload_get_metric_at(p, index) IN
         IF raw = None THEN PErr(InvalidMetricIndex(index, index))
         ELSE read_metric(raw[1])

metric_at(p, index) ==
    LET count == metric_count(p) IN
    IF index >= count THEN PErr(InvalidMetricIndex(index, count))
    ELSE LET raw == sparkplug_payload_get_metric_at(p, index) IN
         IF raw = None THEN PErr(InvalidMetricIndex(index, count))
         ELSE read_metric(raw[1])

\* MetricIterator.
MetricIterator(index, count) == [index |-> index, count |-> count]

metrics(p) == MetricIterator(0, metric_count(p))

\* A variant of next that returns the item and stays on it.
next_without_advance(it, p) ==
    IF it.index >= it.count THEN [iter |-> it, item |-> None]
    ELSE [iter |-> it, item |-> Some(metric_at(p, it.index))]

\* MetricIterator::next: the iterator it leaves and the item it returns.
next(it, p) ==
    IF it.index >= it.count THEN [iter |-> it, item |-> None]
    ELSE [iter |-> [it EXCEPT !.index = @ + 1],
          item |-> Some(metric_at(p, it.index))]

size_hint(it) ==
    LET remaining == it.count - it.index IN <<remaining, Some(remaining)>>

\* ---- inputs -------------------------------------------------------------

NameInputs   == {<<"a">>, <<"b">>, <<"a", Nul, "b">>}
StringInputs == {<<"x">>, <<Big>>, <<"x", Nul, "y">>}
AliasInputs  == {1, 2}
TimeInputs   == {0}
SeqInputs    == {0}

\* The datatype and value of the numeric and boolean add_* calls taken.
TypedInputs ==
    {<<"Int32", IntValue(7)>>, <<"Boolean", BoolValue(TRUE)>>}

\* The metrics of received payloads: by name, by alias, by both, by neither,
\* with a string value, with a null value, with a name that is no UTF-8.
WireMetrics ==
    {RawMetric(Some(<<"a">>), None, "Int32", FALSE, IntValue(7)),
     RawMetric(None, Some(1), "Boolean", FALSE, BoolValue(TRUE)),
     RawMetric(Some(<<"b">>), Some(2), "String", FALSE, StrValue(<<"x">>)),
     RawMetric(None, None, "Int32", FALSE, IntValue(0)),
     RawMetric(Some(<<"a">>), None, "Int64", TRUE, NoValue),
     RawMetric(Some(<<BadUtf8>>), Some(1), "Int32", FALSE, IntValue(7))}

\* The envelope fields of received payloads.
WireHeaders ==
    {<<>>,
     <<NumField("timestamp", 0), NumField("seq", 0), StrField("uuid", <<>>)>>,
     <<NumField("timestamp", 5)>>,
     <<NumField("seq", 3), StrField("uuid", <<"u">>)>>}

RECURSIVE SeqsOf(_, _)
SeqsOf(S, n) ==
    IF n = 0 THEN {<<>>}
    ELSE SeqsOf(S, n - 1)
           \cup {Append(q, x) : q \in {r \in SeqsOf(S, n - 1) : Len(r) = n - 1},
                                x \in S}

\* The bytes handed to Payload::parse by a subscriber.
WireInputs ==
    {h \o [k \in 1..Len(ms) |-> MetricField(ms[k])] :
        h \in WireHeaders, ms \in SeqsOf(WireMetrics, MaxMetrics)}
    \cup {<<Junk(4)>>}

\* ---- state and calls ----------------------------------------------------

NoCall == [op |-> "none"]

PayIdle ==
    /\ builder = sparkplug_payload_create
    /\ pb_log = [adds |-> <<>>, timestamp |-> None, seq |-> None]
    /\ pb_call = NoCall
    /\ data = None
    /\ payload = None
    /\ pl_read = NoCall
    /\ iter = None
    /\ iter_items = <<>>
    /\ utf8_validated = FALSE

\* The caller fills the builder, serializes it and parses the bytes.
Building == data = None /\ pb_call.op # "serialize"

BuilderCall(op, name, value, r) ==
    /\ builder' = r.builder
    /\ pb_call' = [op |-> op, name |-> name, value |-> value,
                   result |-> r.result]
    /\ UNCHANGED <<data, payload, pl_read, iter, iter_items, utf8_validated>>

\* What the caller asked for with an add_* call that returned Ok.
Asked(name, alias, value) == [name |-> name, alias |-> alias, value |-> value]

Logged(r, asked) ==
    pb_log' = IF r.result.ok THEN [pb_log EXCEPT !.adds = Append(@, asked)]
              ELSE pb_log

SetTimestamp ==
    /\ Building
    /\ \E t \in TimeInputs :
          /\ BuilderCall("set_timestamp", None, None, set_timestamp(builder, t))
          /\ pb_log' = [pb_log EXCEPT !.timestamp = Some(t)]
    /\ UNCHANGED <<topicVars, pubVars, trackVars, monVars, connVars, progVars>>

SetSeq ==
    /\ Building
    /\ \E s \in SeqInputs :
          /\ BuilderCall("set_seq", None, None, set_seq(builder, s))
          /\ pb_log' = [pb_log EXCEPT !.seq = Some(s)]
    /\ UNCHANGED <<topicVars, pubVars, trackVars, monVars, connVars, progVars>>

AddByName ==
    /\ Building
    /\ Len(builder.metrics) < MaxMetrics
    /\ \E name \in NameInputs, tv \in TypedInputs :
          LET r == add_by_name(builder, tv[1], name, tv[2]) IN
          /\ BuilderCall("add_by_name", Some(name), None, r)
          /\ Logged(r, Asked(Some(name), None, MetricValue(tv[1], tv[2])))
    /\ UNCHANGED <<topicVars, pubVars, trackVars, monVars, connVars, progVars>>

AddString ==
    /\ Building
    /\ Len(builder.metrics) < MaxMetrics
    /\ \E name \in NameInputs, value \in StringInputs :
          LET r == add_string(builder, name, value) IN
          /\ BuilderCall("add_string", Some(name), Some(value), r)
          /\ Logged(r, Asked(Some(name), None,
                             MetricValue("String", StrValue(value))))
    /\ UNCHANGED <<topicVars, pubVars, trackVars, monVars, connVars, progVars>>

AddWithAlias ==
    /\ Building
    /\ Len(builder.metrics) < MaxMetrics
    /\ \E name \in NameInputs, alias \in AliasInputs, tv \in TypedInputs :
          LET r == add_with_alias(builder, tv[1], name, alias, tv[2]) IN
          /\ BuilderCall("add_with_alias", Some(name), None, r)
          /\ Logged(r, Asked(Some(name), Some(alias),
                             MetricValue(tv[1], tv[2])))
    /\ UNCHANGED <<topicVars, pubVars, trackVars, monVars, connVars, progVars>>

AddByAlias ==
    /\ Building
    /\ Len(builder.metrics) < MaxMetrics
    /\ \E alias \in AliasInputs, tv \in TypedInputs :
          LET r == add_by_alias(builder, tv[1], alias, tv[2]) IN
          /\ BuilderCall("add_by_alias", None, None, r)
          /\ Logged(r, Asked(None, Some(alias), MetricValue(tv[1], tv[2])))
    /\ UNCHANGED <<topicVars, pubVars, trackVars, monVars, connVars, progVars>>

Serialize ==
    /\ Building
    /\ LET r == serialize(builder) IN
          /\ pb_call' = [op |-> "serialize", name |-> None, value |-> None,
                         result |-> r]
          /\ data' = IF r.ok THEN Some(r.val) ELSE data
    /\ UNCHANGED <<builder, pb_log, payload, pl_read, iter, iter_items,
                   utf8_validated>>
    /\ UNCHANGED <<topicVars, pubVars, trackVars, monVars, connVars, progVars>>

ParsePayload ==
    /\ data # None
    /\ payload = None
    /\ payload' = Some(Payload_parse(data[1], utf8_validated))
    /\ UNCHANGED <<builder, pb_log, pb_call, data, pl_read, iter, iter_items,
                   utf8_validated>>
    /\ UNCHANGED <<topicVars, pubVars, trackVars, monVars, connVars, progVars>>

Parsed == payload # None /\ payload[1].ok

Read(op, index, result) ==
    /\ pl_read' = [op |-> op, index |-> index, result |-> result]
    /\ UNCHANGED <<builder, pb_log, pb_call, data, payload, utf8_validated>>

ReadEnvelope ==
    /\ Parsed
    /\ \/ Read("timestamp", 0, timestamp(payload[1].val))
       \/ Read("seq", 0, Payload_seq(payload[1].val))
       \/ Read("uuid", 0, uuid(payload[1].val))
       \/ Read("metric_count", 0, metric_count(payload[1].val))
    /\ UNCHANGED <<iter, iter_items>>
    /\ UNCHANGED <<topicVars, pubVars, trackVars, monVars, connVars, progVars>>

MetricAt ==
    /\ Parsed
    /\ \E index \in 0..(MaxMetrics + 1) :
          Read("metric_at", index, metric_at(payload[1].val, index))
    /\ UNCHANGED <<iter, iter_items>>
    /\ UNCHANGED <<topicVars, pubVars, trackVars, monVars, connVars, progVars>>

\* pl_read keeps, as index, how many items the iterator before gave.
Metrics ==
    /\ Parsed
    /\ iter' = Some(metrics(payload[1].val))
    /\ iter_items' = <<>>
    /\ Read("metrics", Len(iter_items), None)
    /\ UNCHANGED <<topicVars, pubVars, trackVars, monVars, connVars, progVars>>

IterNext ==
    /\ Parsed
    /\ iter # None
    /\ Len(iter_items) <= MaxMetrics
    /\ LET r == next(iter[1], payload[1].val) IN
          /\ iter' = Some(r.iter)
          /\ iter_items' = Append(iter_items, r.item)
          /\ Read("next", Len(iter_items), r.item)
    /\ UNCHANGED <<topicVars, pubVars, trackVars, monVars, connVars, progVars>>

\* A wire datatype code that is none of the 15.
OtherCode == "Other"

\* The value a publisher sets for a metric of the datatype: a number, a
\* boolean, a string; nothing for a datatype that is not known.
ValueFor(dt) ==
    IF dt = "Boolean" THEN BoolValue(TRUE)
    ELSE IF dt \in {"String", "Text"} THEN StrValue(<<"x">>)
    ELSE IF dt \in {"Unknown", OtherCode} THEN NoValue
    ELSE IntValue(7)

\* One metric of every datatype, with its value and flagged null.
TagMetrics ==
    {RawMetric(Some(<<"a">>), None, dt, FALSE, ValueFor(dt)) :
        dt \in DataTypes \cup {OtherCode}}
    \cup {RawMetric(Some(<<"a">>), None, dt, TRUE, NoValue) :
        dt \in DataTypes \cup {OtherCode}}

\* The bytes of the payloads that carry one such metric.
TagInputs ==
    {<<NumField("seq", 3), MetricField(m)>> : m \in TagMetrics}

(***************************************************************************)
(* Monitor (examples/ot_subscriber.rs)                                     *)
(*                                                                         *)
(* handle_message keeps one NodeState per "group/node" key.  last_seen is  *)
(* a wall-clock stamp nothing reads back and is left out.                  *)
(***************************************************************************)

\* The most messages the monitor is given.
MaxMonMessages == 3

\* Message: the topic and the payload bytes of a received message.
Message(t, d) == [topic |-> t, payload_data |-> d]

\* Message::parse_payload.
parse_payload(msg) == Payload_parse(msg.payload_data, FALSE)

\* The group a subscriber filters on, which handle_message is called with.
MonGroup == <<"g">>

\* format!("{}/{}", group, node_id).
node_key(group, node_id) == JoinSlash(<<group, node_id>>)

\* NodeState::new.
NewNodeState ==
    [last_seq |-> None, metrics |-> <<>>, aliases |-> <<>>, online |-> FALSE]

\* HashMap::insert and HashMap::get.
insert(map, k, v) ==
    [x \in (DOMAIN map) \cup {k} |-> IF x = k THEN v ELSE map[x]]
get(map, k) == IF k \in DOMAIN map THEN Some(map[k]) ELSE None

\* extract_double.
extract_double(value) ==
    IF value.variant \in {"Double", "Float", "Int64", "Int32"}
    THEN Some(value.int) ELSE None

\* payload.metrics().flatten(): the Ok items of the iterator, in order.
RECURSIVE flatten_from(_, _)
flatten_from(p, index) ==
    IF index >= metric_count(p) THEN <<>>
    ELSE LET r == metric_at(p, index) IN
         (IF r.ok THEN <<r.val>> ELSE <<>>) \o flatten_from(p, index + 1)
flattened_metrics(p) == flatten_from(p, 0)

\* The body of the birth loop for one metric.
birth_metric(node, metric) ==
    IF metric.name = None THEN node
    ELSE LET bound == IF metric.alias = None THEN node
                      ELSE [node EXCEPT !.aliases =
                               insert(@, metric.alias[1], metric.name[1])]
             val   == extract_double(metric.value)
         IN  IF val = None THEN bound
             ELSE [bound EXCEPT !.metrics = insert(@, metric.name[1], val[1])]

\* A variant of metric_name that gives an alias the registry does not hold
\* the name of some alias it holds.
metric_name_or_any(node, metric) ==
    IF metric.name # None THEN metric.name
    ELSE IF metric.alias = None THEN None
    ELSE IF metric.alias[1] \in DOMAIN node.aliases
         THEN Some(node.aliases[metric.alias[1]])
    ELSE IF DOMAIN node.aliases = {} THEN None
    ELSE Some(node.aliases[CHOOSE a \in DOMAIN node.aliases : TRUE])

\* The name a data metric goes by: its own, or the one its alias is bound to.
metric_name(node, metric) ==
    IF metric.name # None THEN metric.name
    ELSE IF metric.alias # None THEN get(node.aliases, metric.alias[1])
    ELSE None

\* The body of the data loop for one metric.
data_metric(node, metric) ==
    LET name == metric_name(node, metric)
        val  == extract_double(metric.value)
    IN  IF name = None \/ val = None THEN node
        ELSE [node EXCEPT !.metrics = insert(@, name[1], val[1])]

RECURSIVE birth_loop(_, _)
birth_loop(node, ms) ==
    IF ms = <<>> THEN node
    ELSE birth_loop(birth_metric(node, Head(ms)), Tail(ms))

RECURSIVE data_loop(_, _)
data_loop(node, ms) ==
    IF ms = <<>> THEN node
    ELSE data_loop(data_metric(node, Head(ms)), Tail(ms))

\* last_seq after a payload: its seq when it has one.
seen_seq(node, p) ==
    IF Payload_seq(p) = None THEN node
    ELSE [node EXCEPT !.last_seq = Payload_seq(p)]

on_birth(node, msg) ==
    LET up == [node EXCEPT !.online = TRUE]
        p  == parse_payload(msg)
    IN  IF ~p.ok THEN up
        ELSE birth_loop(seen_seq(up, p.val), flattened_metrics(p.val))

on_data(node, msg) ==
    LET p == parse_payload(msg) IN
    IF ~p.ok THEN node
    ELSE data_loop(seen_seq(node, p.val), flattened_metrics(p.val))

on_death(node) == [node EXCEPT !.online = FALSE]

\* handle_message: the node map it leaves.
handle_message(nodes, msg, group) ==
    LET t == parse_topic(msg) IN
    IF ~t.ok \/ message_type(t.val) = None \/ edge_node_id(t.val) = None
    THEN nodes
    ELSE LET msg_type == message_type(t.val)[1]
             key      == node_key(group, edge_node_id(t.val)[1])
             map      == IF key \in DOMAIN nodes THEN nodes
                         ELSE insert(nodes, key, NewNodeState)
             node     == map[key]
         IN  [map EXCEPT ![key] =
                 IF is_birth(msg_type) THEN on_birth(node, msg)
                 ELSE IF is_data(msg_type) THEN on_data(node, msg)
                 ELSE IF is_death(msg_type) THEN on_death(node)
                 ELSE node]

\* ---- inputs -------------------------------------------------------------

MonNode  == <<"n1">>
MonOther == <<"n2">>

BirthMetric(name, alias) ==
    RawMetric(Some(name), Some(alias), "Int32", FALSE, IntValue(7))
DataMetric(alias) ==
    RawMetric(None, Some(alias), "Int32", FALSE, IntValue(9))

\* The bytes of a payload with these metrics and, for a seq, that seq.
PayloadBytes(seq, ms) ==
    (IF seq = None THEN <<>> ELSE <<NumField("seq", seq[1])>>)
    \o [k \in 1..Len(ms) |-> MetricField(ms[k])]

BirthPayloads ==
    {PayloadBytes(Some(0), <<BirthMetric(<<"a">>, 1)>>),
     PayloadBytes(Some(0), <<BirthMetric(<<"a">>, 1), BirthMetric(<<"b">>, 2)>>),
     PayloadBytes(Some(0), <<BirthMetric(<<"b">>, 1)>>),
     <<Junk(4)>>}

DataPayloads ==
    {PayloadBytes(Some(1), <<DataMetric(1)>>),
     PayloadBytes(Some(1), <<DataMetric(2)>>),
     <<Junk(4)>>}

MonMessages ==
    {Message(t, d) :
        t \in {NodeTopic("NBirth", MonNode),
               DeviceTopic("DBirth", MonNode, <<"d1">>)},
        d \in BirthPayloads}
    \cup {Message(t, d) :
        t \in {NodeTopic("NData", MonNode),
               DeviceTopic("DData", MonNode, <<"d1">>)},
        d \in DataPayloads}
    \cup {Message(NodeTopic("NDeath", MonNode), PayloadBytes(None, <<>>)),
          Message(NodeTopic("NCmd", MonNode), PayloadBytes(None, <<>>)),
          Message(JoinSlash(<<<<"STATE">>, <<"h">>>>), PayloadBytes(None, <<>>)),
          Message(NodeTopic("NBirth", MonOther),
                  PayloadBytes(Some(0), <<BirthMetric(<<"b">>, 2)>>)),
          Message(NodeTopic("NData", MonOther),
                  PayloadBytes(Some(1), <<DataMetric(2)>>))}

\* ---- state and calls ----------------------------------------------------

MonIdle == mon_nodes = <<>> /\ mon_log = <<>>

HandleMon ==
    /\ Len(mon_log) < MaxMonMessages
    /\ \E msg \in MonMessages :
          /\ mon_nodes' = handle_message(mon_nodes, msg, MonGroup)
          /\ mon_log' = Append(mon_log, msg)
    /\ UNCHANGED <<topicVars, pubVars, trackVars, payVars, connVars, progVars>>

(***************************************************************************)
(* Connections (src/src/subscriber.rs, src/src/publisher.rs and the        *)
(* disconnect of src/examples/torture_test_subscriber.rs)                  *)
(*                                                                         *)
(* The transport is the C library behind sys::sparkplug_subscriber_* and   *)
(* sys::sparkplug_publisher_*: it calls the callback wrappers on its own   *)
(* thread while the program's thread calls disconnect.                     *)
(***************************************************************************)

\* The most callbacks the transport dispatches and the most disconnect calls.
MaxCallbacks   == 3
MaxDisconnects == 2

\* Result<()> of connect, disconnect and the subscribe calls.
Done == [ok |-> TRUE, operation |-> "none"]
OperationFailed(operation) == [ok |-> FALSE, operation |-> operation]

\* A Subscriber or Publisher: the state of its handle in the library.
Handle(connected) == [connected |-> connected]

\* sys::sparkplug_subscriber_disconnect and sys::sparkplug_publisher_disconnect:
\* the connection is closed and 0 returned, also when it was closed already.
sparkplug_disconnect(h) == [handle |-> Handle(FALSE), ret |-> 0]

\* The transport dispatches to a subscriber only while it is connected.
dispatches(sub) == sub # None /\ sub[1].connected

\* A variant of Subscriber::disconnect with the return code test inverted.
disconnect_inverted(h) ==
    LET r == sparkplug_disconnect(h) IN
    [handle |-> r.handle,
     result |-> IF r.ret = 0 THEN OperationFailed("disconnect") ELSE Done]

\* Subscriber::disconnect and Publisher::disconnect.
disconnect(h) ==
    LET r == sparkplug_disconnect(h) IN
    [handle |-> r.handle,
     result |-> IF r.ret # 0 THEN OperationFailed("disconnect") ELSE Done]

\* TortureTestSubscriber::disconnect: both handles are taken, disconnected
\* when there were any, and dropped; a failure is only logged.
torture_disconnect(sub, cmd_pub) ==
    [subscriber |-> None, command_publisher |-> None, result |-> Done,
     calls |-> (IF sub # None THEN <<disconnect(sub[1]).result>> ELSE <<>>)
               \o (IF cmd_pub # None THEN <<disconnect(cmd_pub[1]).result>>
                   ELSE <<>>)]

CallbackKinds == {"message", "command"}

ConnIdle ==
    /\ conn_sub = Some(Handle(TRUE))
    /\ conn_pub = Some(Handle(TRUE))
    /\ cb_phase = [k \in CallbackKinds |-> "idle"]
    /\ cb_log = <<>>
    /\ disc_log = <<>>

\* A call of disconnect: which one, whether the subscriber was connected
\* when it was made, and what it returned.
Disconnected(op, result) ==
    [op |-> op, found_connected |-> dispatches(conn_sub), result |-> result]

\* The transport calls message_callback_wrapper or command_callback_wrapper.
Dispatch ==
    /\ Len(cb_log) < MaxCallbacks
    /\ dispatches(conn_sub)
    /\ \E k \in CallbackKinds :
          /\ cb_phase[k] = "idle"
          /\ cb_phase' = [cb_phase EXCEPT ![k] = "entered"]
          /\ cb_log' = Append(cb_log, [kind |-> k, after |-> Len(disc_log)])
    /\ UNCHANGED <<conn_sub, conn_pub, disc_log>>
    /\ UNCHANGED <<topicVars, pubVars, trackVars, payVars, monVars, progVars>>

\* The wrapper takes the callbacks lock and calls the program's callback.
Invoke ==
    /\ \E k \in CallbackKinds :
          /\ cb_phase[k] = "entered"
          /\ \A j \in CallbackKinds : cb_phase[j] # "running"
          /\ cb_phase' = [cb_phase EXCEPT ![k] = "running"]
    /\ UNCHANGED <<conn_sub, conn_pub, cb_log, disc_log>>
    /\ UNCHANGED <<topicVars, pubVars, trackVars, payVars, monVars, progVars>>

\* The program's callback returns and the wrapper releases the lock.
CallbackReturn ==
    /\ \E k \in CallbackKinds :
          /\ cb_phase[k] = "running"
          /\ cb_phase' = [cb_phase EXCEPT ![k] = "idle"]
    /\ UNCHANGED <<conn_sub, conn_pub, cb_log, disc_log>>
    /\ UNCHANGED <<topicVars, pubVars, trackVars, payVars, monVars, progVars>>

\* The program calls Subscriber::disconnect on the subscriber it holds.
SubscriberDisconnect ==
    /\ Len(disc_log) < MaxDisconnects
    /\ conn_sub # None
    /\ LET r == disconnect(conn_sub[1]) IN
          /\ conn_sub' = Some(r.handle)
          /\ disc_log' = Append(disc_log,
                                Disconnected("Subscriber::disconnect", r.result))
    /\ UNCHANGED <<conn_pub, cb_phase, cb_log>>
    /\ UNCHANGED <<topicVars, pubVars, trackVars, payVars, monVars, progVars>>

\* The program calls Publisher::disconnect on the publisher it holds.
PublisherDisconnect ==
    /\ Len(disc_log) < MaxDisconnects
    /\ conn_pub # None
    /\ LET r == disconnect(conn_pub[1]) IN
          /\ conn_pub' = Some(r.handle)
          /\ disc_log' = Append(disc_log,
                                Disconnected("Publisher::disconnect", r.result))
    /\ UNCHANGED <<conn_sub, cb_phase, cb_log>>
    /\ UNCHANGED <<topicVars, pubVars, trackVars, payVars, monVars, progVars>>

\* The program calls TortureTestSubscriber::disconnect.
TortureDisconnect ==
    /\ Len(disc_log) < MaxDisconnects
    /\ LET r == torture_disconnect(conn_sub, conn_pub) IN
          /\ conn_sub' = r.subscriber
          /\ conn_pub' = r.command_publisher
          /\ disc_log' = Append(disc_log,
                                Disconnected("TortureTestSubscriber::disconnect",
                                             r.result))
    /\ UNCHANGED <<cb_phase, cb_log>>
    /\ UNCHANGED <<topicVars, pubVars, trackVars, payVars, monVars, progVars>>

(***************************************************************************)
(* Torture publisher (examples/torture_test_publisher.rs)                  *)
(*                                                                         *)
(* The main thread connects, publishes the births and runs the data loop;  *)
(* the command callback runs on the transport's thread and shares the      *)
(* flag do_rebirth with the loop.  run_pc is the main thread's position:   *)
(* each value stands before one call on the publisher or one access to     *)
(* the flag.  run_log keeps the rebirth requests received and the births   *)
(* attempted, in the order they happened.                                  *)
(***************************************************************************)

\* Rebirth requests received before the model stops sending them.
MaxCommands == 2

Motor01  == <<"d1">>
Sensor01 == <<"d2">>

ProgIdle ==
    /\ run_pc = "connect"
    /\ do_rebirth = FALSE
    /\ run_log = <<>>
    /\ wire = <<>>

\* An entry of run_log: what happened and where the main thread stood.
Event(op, device, ok) ==
    [op |-> op, device |-> device, ok |-> ok, at |-> run_pc]

\* A command: the message type of the topic, whether the topic names this
\* edge node, and one metric.
Command(type, own, name, value) ==
    [type |-> type, own |-> own, name |-> name, value |-> value]

\* The commands the callback is handed: the rebirth request, and the
\* commands that differ from it in one respect.
Commands ==
    {Command("NCMD", TRUE, "Node Control/Rebirth", TRUE),
     Command("DCMD", TRUE, "Node Control/Rebirth", TRUE),
     Command("NCMD", FALSE, "Node Control/Rebirth", TRUE),
     Command("NCMD", TRUE, "Node Control/Scan Rate", TRUE),
     Command("NCMD", TRUE, "Node Control/Rebirth", FALSE)}

\* Whether handle_command stores true into do_rebirth for this command.
requests_rebirth(cmd) ==
    /\ cmd.type = "NCMD"
    /\ cmd.own
    /\ cmd.name = "Node Control/Rebirth"
    /\ cmd.value

\* handle_command, on the transport's thread.
HandleCommand ==
    /\ run_pc # "stopped"
    /\ \E cmd \in Commands :
          IF requests_rebirth(cmd)
          THEN /\ Len(SelectSeq(run_log, LAMBDA e : e.op = "NCMD")) < MaxCommands
               /\ do_rebirth' = TRUE
               /\ run_log' = Append(run_log, Event("NCMD", None, TRUE))
          ELSE UNCHANGED <<do_rebirth, run_log>>
    /\ UNCHANGED <<run_pc, wire>>
    /\ UNCHANGED <<topicVars, pubVars, trackVars, payVars, monVars, connVars>>

\* What a step of the main thread leaves alone.
OnlyMainThread ==
    /\ UNCHANGED <<pub_since_birth, pub_device_sent, wire>>
    /\ UNCHANGED <<topicVars, trackVars, payVars, monVars, connVars>>

\* The call just made joins the log.
LogCall(device) ==
    run_log' = Append(run_log, Event(pub_call'[1].op, device, pub_call'[1].ok))

\* connect: the publisher and the command subscriber are up; publish_birth
\* publishes the NBIRTH, and an error ends the program.
ConnectBirth ==
    /\ run_pc = "connect"
    /\ \E ok \in BOOLEAN : publish_birth(ok)
    /\ LogCall(None)
    /\ run_pc' = IF pub_call'[1].ok THEN "birth_motor" ELSE "stopped"
    /\ UNCHANGED do_rebirth
    /\ OnlyMainThread

\* One publish_device_birth of publish_device_births.
device_birth(at, d, then, otherwise) ==
    /\ run_pc = at
    /\ \E ok \in BOOLEAN : publish_device_birth(d, ok)
    /\ LogCall(d)
    /\ run_pc' = IF pub_call'[1].ok THEN then ELSE otherwise
    /\ UNCHANGED do_rebirth
    /\ OnlyMainThread

\* publish_device_births after the first NBIRTH: an error ends the program.
BirthDevices ==
    \/ device_birth("birth_motor", Motor01, "birth_sensor", "stopped")
    \/ device_birth("birth_sensor", Sensor01, "load", "stopped")

\* The loop reads the flag.
LoadFlag ==
    /\ run_pc = "load"
    /\ run_pc' = IF do_rebirth THEN "rebirth" ELSE "data"
    /\ UNCHANGED <<pubVars, do_rebirth, run_log>>
    /\ OnlyMainThread

\* Where the loop goes after rebirth() whatever it returned.
after_rebirth_always(ok) == "rebirth_motor"

\* Where the loop goes after rebirth(): to the device births on Ok, past
\* them on Err.
after_rebirth(ok) == IF ok THEN "rebirth_motor" ELSE "clear"

\* The loop calls rebirth().
RunRebirth ==
    /\ run_pc = "rebirth"
    /\ \E ok \in BOOLEAN : rebirth(ok)
    /\ LogCall(None)
    /\ run_pc' = after_rebirth(pub_call'[1].ok)
    /\ UNCHANGED do_rebirth
    /\ OnlyMainThread

\* publish_device_births after a rebirth: an error is logged and the loop
\* goes on.
RebirthDevices ==
    \/ device_birth("rebirth_motor", Motor01, "rebirth_sensor", "clear")
    \/ device_birth("rebirth_sensor", Sensor01, "clear", "clear")

\* The loop stores false into the flag.
ClearFlag ==
    /\ run_pc = "clear"
    /\ do_rebirth' = FALSE
    /\ run_pc' = "data"
    /\ UNCHANGED <<pubVars, run_log>>
    /\ OnlyMainThread

\* The loop publishes its NDATA and sleeps; an error leaves the loop.
RunData ==
    /\ run_pc = "data"
    /\ \E ok \in BOOLEAN : publish_data(ok)
    /\ run_pc' = IF pub_call'[1].ok THEN "load" ELSE "stopped"
    /\ UNCHANGED <<do_rebirth, run_log>>
    /\ OnlyMainThread

\* A step of the main thread.
MainThread ==
    \/ ConnectBirth \/ BirthDevices
    \/ LoadFlag \/ RunRebirth \/ RebirthDevices \/ ClearFlag \/ RunData

(***************************************************************************)
(* Publisher and tracker joined by a channel                               *)
(*                                                                         *)
(* wire holds the node messages the publisher handed to the transport and  *)
(* the tracker's callback has not been given yet, oldest first: nothing is *)
(* lost, reordered or repeated.                                            *)
(***************************************************************************)

\* Messages in flight before the publisher waits for the transport.
MaxInFlight == 1
\* Messages published before the model stops publishing.
MaxSent == 259

LinkNode == <<"n1">>

\* The message a successful call on the publisher puts on the channel.
OnWire(call) ==
    Msg(NodeTopic(IF call.op = "NDATA" THEN "NData" ELSE "NBirth", LinkNode),
        Payload(TRUE, call.seq, call.bd_seq))

\* A call on the publisher by a program that publishes its birth once and
\* then publishes data and rebirths in any order.
LinkPublish ==
    /\ Len(wire) < MaxInFlight
    /\ messages_received + Len(wire) < MaxSent
    /\ \E ok \in BOOLEAN :
          \/ ~pub_born /\ publish_birth(ok)
          \/ publish_data(ok)
          \/ pub_bd_seq < MaxRebirths /\ pub_born /\ rebirth(ok)
    /\ wire' = IF pub_call'[1].ok THEN Append(wire, OnWire(pub_call'[1])) ELSE wire
    /\ UNCHANGED <<pub_since_birth, pub_device_sent>>
    /\ UNCHANGED <<run_pc, do_rebirth, run_log>>
    /\ UNCHANGED <<topicVars, trackVars, payVars, monVars, connVars>>

\* The transport hands the oldest message in flight to the tracker.
Deliver ==
    /\ wire # <<>>
    /\ handle_message_static(Head(wire))
    /\ wire' = Tail(wire)
    /\ UNCHANGED <<run_pc, do_rebirth, run_log>>
    /\ UNCHANGED <<topicVars, pubVars, payVars, monVars, connVars>>

(***************************************************************************)
(* Specifications                                                          *)
(***************************************************************************)

\* The tracker fed with messages while its sweep runs.
Init ==
    /\ TopicIdle
    /\ PubIdle /\ pub_bd_seq = 0
    /\ TrackerIdle
    /\ PayIdle
    /\ MonIdle
    /\ ConnIdle
    /\ ProgIdle
    /\ profile \in {"debug", "release"}

Next ==
    \/ Receive(SweepMessages)
    \/ SweepScan
    \/ SweepSend
    \/ SweepMark
    \/ Tick

Spec == Init /\ [][Next]_vars

\* The run loop calls check_sleeping_nodes every 100 ms and each of its
\* steps returns; the clock advances.
FairSpec ==
    /\ Spec
    /\ WF_vars(SweepScan) /\ WF_vars(SweepSend) /\ WF_vars(SweepMark)
    /\ WF_vars(Tick)

\* The tracker's handler fed with every kind of message.
MsgNext == Receive(Messages)

MsgSpec == Init /\ [][MsgNext]_vars

\* parse and to_topic_string applied to one topic.
TopicInit ==
    /\ topic \in TopicInputs
    /\ parsed = None
    /\ rendered = None
    /\ PubIdle /\ pub_bd_seq = 0
    /\ TrackerIdle
    /\ PayIdle
    /\ MonIdle
    /\ ConnIdle
    /\ ProgIdle
    /\ profile = "release"

TopicNext == ParseTopic \/ RenderTopic

TopicSpec == TopicInit /\ [][TopicNext]_vars

\* One publisher and its caller.
PubInit ==
    /\ TopicIdle
    /\ PubIdle /\ pub_bd_seq \in InitBdSeqs
    /\ TrackerIdle
    /\ PayIdle
    /\ MonIdle
    /\ ConnIdle
    /\ ProgIdle
    /\ profile = "release"

PubNext == PublishBirth \/ PublishData \/ Rebirth \/ PublishDeath

PubSpec == PubInit /\ [][PubNext]_vars

\* One publisher, its devices and its caller.
DevNext == PublishBirth \/ PublishData \/ PublishDeviceBirth \/ PublishDeviceData

DevSpec == PubInit /\ [][DevNext]_vars

\* One PayloadBuilder filled, serialized, and its bytes parsed.
BuildInit ==
    /\ TopicIdle
    /\ PubIdle /\ pub_bd_seq = 0
    /\ TrackerIdle
    /\ PayIdle
    /\ MonIdle
    /\ ConnIdle
    /\ ProgIdle
    /\ profile = "release"

BuildNext ==
    \/ SetTimestamp \/ SetSeq
    \/ AddByName \/ AddString \/ AddWithAlias \/ AddByAlias
    \/ Serialize
    \/ ParsePayload

BuildSpec == BuildInit /\ [][BuildNext]_vars

\* One received payload parsed and read.
ReadInit ==
    /\ TopicIdle
    /\ PubIdle /\ pub_bd_seq = 0
    /\ TrackerIdle
    /\ builder = sparkplug_payload_create
    /\ pb_log = [adds |-> <<>>, timestamp |-> None, seq |-> None]
    /\ pb_call = NoCall
    /\ data \in {Some(w) : w \in WireInputs}
    /\ payload = None
    /\ pl_read = NoCall
    /\ iter = None
    /\ iter_items = <<>>
    /\ utf8_validated \in BOOLEAN
    /\ MonIdle
    /\ ConnIdle
    /\ ProgIdle
    /\ profile = "release"

ReadNext == ParsePayload \/ ReadEnvelope \/ MetricAt \/ Metrics \/ IterNext

ReadSpec == ReadInit /\ [][ReadNext]_vars

\* The monitor's handler fed with messages of two nodes.
MonInit == BuildInit

MonNext == HandleMon

MonSpec == MonInit /\ [][MonNext]_vars

\* One subscriber and one publisher disconnected while callbacks run.
ConnInit == BuildInit

ConnNext ==
    \/ Dispatch \/ Invoke \/ CallbackReturn
    \/ SubscriberDisconnect \/ PublisherDisconnect \/ TortureDisconnect

ConnSpec == ConnInit /\ [][ConnNext]_vars

\* The torture publisher: its main thread and its command callback.
RunInit == BuildInit

RunNext == MainThread \/ HandleCommand

RunSpec == RunInit /\ [][RunNext]_vars

\* The same, with a main thread that keeps running.
FairRunSpec == RunSpec /\ WF_vars(MainThread)

\* The publisher and the tracker joined by the channel.
LinkInit == BuildInit

LinkNext == LinkPublish \/ Deliver

LinkSpec == LinkInit /\ [][LinkNext]_vars

\* One received payload with one metric of any datatype, parsed and read.
TagInit ==
    /\ TopicIdle
    /\ PubIdle /\ pub_bd_seq = 0
    /\ TrackerIdle
    /\ builder = sparkplug_payload_create
    /\ pb_log = [adds |-> <<>>, timestamp |-> None, seq |-> None]
    /\ pb_call = NoCall
    /\ data \in {Some(w) : w \in TagInputs}
    /\ payload = None
    /\ pl_read = NoCall
    /\ iter = None
    /\ iter_items = <<>>
    /\ utf8_validated \in BOOLEAN
    /\ MonIdle
    /\ ConnIdle
    /\ ProgIdle
    /\ profile = "release"

TagSpec == TagInit /\ [][ReadNext]_vars

(***************************************************************************)
(* Properties                                                              *)
(***************************************************************************)

\* C1: every topic that parse accepts is returned unchanged by
\* to_topic_string applied to the parsed value.
C1_RoundTrip == rendered # None => rendered[1] = topic

\* The last publisher call, when it put a message on the wire successfully.
Published(op) ==
    /\ pub_call # None
    /\ pub_call[1].op = op
    /\ pub_call[1].ok

\* C2: the birth carries seq 0 and the k-th NDATA published after it
\* carries k mod 256; the counter seq() reports is the seq last carried.
C2_SeqProgression ==
    (Published("NBIRTH") \/ Published("REBIRTH") \/ Published("NDATA")) =>
        /\ pub_call[1].seq = Some(pub_since_birth % 256)
        /\ pub_seq = pub_since_birth % 256

\* The 256th NDATA after a birth has been published: seq is back at 0.
C2_Wrapped == Published("NDATA") /\ pub_since_birth = 256 /\ pub_seq = 0

\* C3: a successful rebirth leaves bdSeq one above its value before the
\* call and seq at 0; no other call changes bdSeq.
C3_RebirthEffect ==
    [][IF pub_call' # None /\ pub_call'[1].op = "REBIRTH" /\ pub_call'[1].ok
       THEN pub_bd_seq' = pub_bd_seq + 1 /\ pub_seq' = 0
       ELSE pub_bd_seq' = pub_bd_seq]_vars

\* A rebirth has succeeded: bdSeq has moved on and seq is back at 0.
C3_Reborn ==
    /\ Published("REBIRTH")
    /\ pub_bd_seq >= 2
    /\ pub_seq = 0
    /\ pub_since_birth = 0

\* C4: a call that returns an error leaves seq and bdSeq as they were, and
\* the NDATA published after a failed NDATA carries the seq the failed one
\* would have carried.
C4_FailureKeepsCounters ==
    [][/\ (pub_call' # None /\ ~pub_call'[1].ok) =>
            (pub_seq' = pub_seq /\ pub_bd_seq' = pub_bd_seq)
       /\ (/\ pub_call # None /\ pub_call[1].op = "NDATA" /\ ~pub_call[1].ok
           /\ pub_call[1].seq # None
           /\ pub_call' # None /\ pub_call'[1].op = "NDATA" /\ pub_call'[1].ok)
          => pub_call'[1].seq = pub_call[1].seq]_vars

\* An NDATA has failed in mid-session: the counter still shows the seq of the
\* last NDATA that was published.
C4_FailedData ==
    /\ pub_call # None
    /\ pub_call[1].op = "NDATA"
    /\ ~pub_call[1].ok
    /\ pub_call[1].seq = Some(4)
    /\ pub_seq = 3
    /\ pub_since_birth = 3

\* The latest step handled a message of type ty from node n.
LastFrom(ty, n) ==
    /\ last_msg # None
    /\ last_msg[1].msg.topic = NodeTopic(ty, n)

\* The latest step handled a message of type ty from n whose payload parsed.
LastParsed(ty, n) ==
    /\ LastFrom(ty, n)
    /\ last_msg[1].msg.payload.parse_ok

\* This step handles an NDATA of n whose payload parses.
DataStep(n) ==
    /\ messages_received' = messages_received + 1
    /\ last_msg' # None
    /\ last_msg'[1].msg.topic = NodeTopic("NData", n)
    /\ last_msg'[1].msg.payload.parse_ok

\* The seq of the NDATA this step handles, as the u8 the handler compares.
StepSeq == seq_or_0(last_msg'[1].msg.payload) % 256

InState(n, st) == n \in DOMAIN node_stats /\ node_stats[n].state = st

\* The latest step handed a rebirth command for n to the command publisher.
RebirthSentTo(n) ==
    /\ last_cmd # None
    /\ last_cmd[1].kind = "Rebirth"
    /\ last_cmd[1].node = n

\* Some node has left the range of wake_attempt_count the model follows.
Horizon ==
    \E n \in DOMAIN node_stats :
        node_stats[n].wake_attempt_count >= MaxWakeAttempts

\* The latest step handled an NDATA of n that found n Sleeping, Unknown or
\* not yet in the map.
WokenByData(n) ==
    /\ LastParsed("NData", n)
    /\ last_msg[1].prev \in {"None", "Unknown", "Sleeping"}

\* C5: an NDATA for a Sleeping or Unknown node leaves the node WakePending,
\* and a rebirth command for the node is sent afterwards unless an NBIRTH
\* from it is handled first.
C5_WakeOnData ==
    \A n \in Nodes :
        /\ [](WokenByData(n) => InState(n, "WakePending"))
        /\ WokenByData(n) ~> (RebirthSentTo(n) \/ LastFrom("NBirth", n) \/ Horizon)

\* C6: after an NBIRTH whose payload parses, whatever state the node was
\* in, the node is Awake with wake_attempt_count 0, last_seq is the birth's
\* seq (as u8) and current_bd_seq is the birth's bdSeq metric.
C6_BirthHandled ==
    \A n \in Nodes :
        LastParsed("NBirth", n) =>
            LET p == last_msg[1].msg.payload IN
            /\ InState(n, "Awake")
            /\ node_stats[n].wake_attempt_count = 0
            /\ p.seq # None => node_stats[n].last_seq = p.seq[1] % 256
            /\ p.bd_seq # None => node_stats[n].current_bd_seq = p.bd_seq[1]

\* An NBIRTH found the node WakePending after a wake attempt and woke it.
C6_WokenByBirth ==
    \E n \in Nodes :
        /\ LastParsed("NBirth", n)
        /\ last_msg[1].prev = "WakePending"
        /\ last_msg[1].msg.payload.seq = Some(250)
        /\ last_msg[1].msg.payload.bd_seq = Some(2)
        /\ InState(n, "Awake")
        /\ node_stats[n].last_seq = 250
        /\ node_stats[n].current_bd_seq = 2
        /\ node_stats[n].wake_attempt_count = 0

\* C7 as claimed: an NDATA with seq s records a sequence error exactly when
\* the node is Awake, s is not (L + 1) mod 256, s is not L, and L is not 255
\* (L the last seq recorded).
C7_GapRuleWithDuplicates ==
    [][\A n \in Nodes :
         DataStep(n) =>
            ((sequence_errors' = sequence_errors + 1) <=>
                /\ InState(n, "Awake")
                /\ StepSeq # (node_stats[n].last_seq + 1) % 256
                /\ StepSeq # node_stats[n].last_seq
                /\ node_stats[n].last_seq # 255)]_vars

\* C7 as amended: an NDATA with seq s records a sequence error exactly when
\* the node is Awake, s is not (L + 1) mod 256 and L is not 255; a repeated
\* seq is recorded as an error too, and no step records more than one.
C7_GapRule ==
    [][/\ \A n \in Nodes :
            DataStep(n) =>
               ((sequence_errors' = sequence_errors + 1) <=>
                   /\ InState(n, "Awake")
                   /\ StepSeq # (node_stats[n].last_seq + 1) % 256
                   /\ node_stats[n].last_seq # 255)
       /\ sequence_errors' \in {sequence_errors, sequence_errors + 1}]_vars

\* An NDATA repeating the last seq of an Awake node was counted as an error.
C7_DuplicateFlagged ==
    \E n \in Nodes :
        /\ LastParsed("NData", n)
        /\ last_msg[1].prev = "Awake"
        /\ last_msg[1].prev_seq = 7
        /\ last_msg[1].msg.payload.seq = Some(7)
        /\ messages_received = 2
        /\ sequence_errors = 1

\* C8: an NDATA handled for an Awake node leaves last_seq at its seq (as
\* u8), the node Awake and data_count one higher, gap or no gap.
C8_Observational ==
    [][\A n \in Nodes :
         (DataStep(n) /\ InState(n, "Awake")) =>
            /\ node_stats'[n].last_seq = StepSeq
            /\ node_stats'[n].state = "Awake"
            /\ node_stats'[n].data_count = node_stats[n].data_count + 1]_vars

\* A gap was recorded (250 then 252) and last_seq moved on to 252.
C8_GapThenAdvance ==
    \E n \in Nodes :
        /\ LastParsed("NData", n)
        /\ last_msg[1].prev = "Awake"
        /\ last_msg[1].prev_seq = 250
        /\ last_msg[1].msg.payload.seq = Some(252)
        /\ sequence_errors = 1
        /\ InState(n, "Awake")
        /\ node_stats[n].last_seq = 252
        /\ node_stats[n].data_count = 1

\* min(cap, base * 2^k), the interval the backoff schedule prescribes.
RECURSIVE ScheduledBackoff(_)
ScheduledBackoff(k) ==
    IF k = 0 THEN BackoffBase
    ELSE IF 2 * ScheduledBackoff(k - 1) < BackoffCap
         THEN 2 * ScheduledBackoff(k - 1) ELSE BackoffCap

\* C9: the sweep reverts a WakePending node to Sleeping exactly when
\* min(60, 5 * 2^k) seconds have passed since the wake attempt, k being the
\* number of earlier unanswered attempts (0 for the first attempt); the
\* attempt count then goes up by one.
C9_BackoffSchedule ==
    /\ [][SweepScan =>
            \A n \in DOMAIN node_stats :
               (wake_pending(node_stats[n]) /\ node_stats[n].last_wake_attempt # None) =>
                  ((node_stats'[n].state = "Sleeping") <=>
                     node_stats[n].last_wake_attempt[1] >=
                        ScheduledBackoff(node_stats[n].wake_attempt_count - 1))]_vars
    /\ [][SweepMark =>
            \A n \in DOMAIN node_stats :
               node_stats'[n].wake_attempt_count \in
                  {node_stats[n].wake_attempt_count,
                   node_stats[n].wake_attempt_count + 1}]_vars

\* A wake attempt is outstanding for n: the node is not Awake and a wake
\* attempt has been stamped.
AwaitingBirth(n) ==
    /\ n \in DOMAIN node_stats
    /\ node_stats[n].state \in {"WakePending", "Sleeping"}
    /\ node_stats[n].last_wake_attempt # None

\* C10: a node that stays without NBIRTH after a wake attempt is sent
\* rebirth commands again and again, however many attempts have failed.
C10_RetriesForever ==
    \A n \in Nodes :
        <>[]AwaitingBirth(n) => ([]<>RebirthSentTo(n) \/ <>Horizon)

\* C11: the sweep's decision to wake a node and the write that marks it
\* WakePending fall in one critical section, so a node that an NBIRTH has
\* made Awake is never turned WakePending by a sweep that chose to wake it
\* before the NBIRTH: no step takes an Awake node to WakePending.
C11_BirthNotOverwritten ==
    [][\A n \in DOMAIN node_stats :
         online(node_stats[n]) => node_stats'[n].state # "WakePending"]_vars

\* This step handles a message whose topic names edge node n.
MessageStepFrom(n) ==
    /\ messages_received' = messages_received + 1
    /\ last_msg' # None
    /\ LET t == parse_topic(last_msg'[1].msg)
       IN  t.ok /\ edge_node_id(t.val) = Some(n)

\* This step is the sweep timing out the wake attempt of n.
TimeoutStepOf(n) ==
    /\ sweep_pc = "idle"
    /\ wake_pending(node_stats[n])
    /\ due(node_stats[n])
    /\ node_stats'[n].state = "Sleeping"

\* C12: sending a rebirth command changes no node's state: the state of a
\* node changes only in a step that handles a message from that node or
\* that times out its wake attempt.
C12_NoTransitionOnSend ==
    [][\A n \in DOMAIN node_stats :
         node_stats'[n].state # node_stats[n].state =>
            MessageStepFrom(n) \/ TimeoutStepOf(n)]_vars

\* This step handles an NBIRTH, NDEATH or NDATA of n whose payload bytes
\* fail to parse.
GarbledStep(n) ==
    /\ messages_received' = messages_received + 1
    /\ last_msg' # None
    /\ last_msg'[1].msg.topic \in
          {NodeTopic(ty, n) : ty \in {"NBirth", "NDeath", "NData"}}
    /\ ~last_msg'[1].msg.payload.parse_ok

\* C13: handling an NBIRTH, NDEATH or NDATA whose payload fails to parse
\* leaves the node's entry (state, seqs, wake bookkeeping, counters) as it
\* was.
C13_GarbledKeepsEntry ==
    [][\A n \in Nodes :
         (GarbledStep(n) /\ n \in DOMAIN node_stats) =>
            node_stats'[n] = node_stats[n]]_vars

\* This step handles a message whose topic ParsedTopic::parse rejects, or
\* accepts as a STATE/{host_id} topic.
UnroutedStep ==
    /\ messages_received' = messages_received + 1
    /\ last_msg' # None
    /\ LET t == parse(last_msg'[1].msg.topic)
       IN  ~t.ok \/ t.val.kind = "State"

\* C14: a message whose topic fails to parse, or is a STATE/{host_id}
\* topic, creates no entry in the node map and changes none.
C14_UnroutedIgnored ==
    [][UnroutedStep => node_stats' = node_stats]_vars

\* A STATE/{host_id} message was handled after n1's birth and n1 is the
\* only entry, still as its birth left it.
C14_StateIgnored ==
    /\ last_msg # None
    /\ last_msg[1].msg.topic = JoinSlash(<<<<"STATE">>, <<"h">>>>)
    /\ messages_received = 2
    /\ DOMAIN node_stats = Nodes
    /\ \A n \in Nodes : InState(n, "Awake") /\ node_stats[n].birth_count = 1

\* This step is a call of op that the publisher rejected: it returned an
\* error, sent nothing and left its counters.
Rejected(op) ==
    /\ pub_call' # None
    /\ pub_call'[1].op = op
    /\ ~pub_call'[1].ok
    /\ pub_call'[1].seq = None
    /\ UNCHANGED <<pub_seq, pub_bd_seq, pub_born, pub_devices>>

\* C15: publish_data is rejected unless a publish_birth has succeeded, and
\* publish_device_data(d) is rejected unless publish_device_birth(d) has
\* succeeded, whatever other devices were born.
C15_BirthBeforeData ==
    [][/\ (pub_call' # None /\ pub_call'[1].op = "NDATA" /\ ~pub_born)
            => Rejected("NDATA")
       /\ \A d \in DeviceIds :
            (/\ pub_call' # None
             /\ pub_call'[1].op = "DDATA"
             /\ pub_call'[1].device = d
             /\ d \notin pub_devices)
            => Rejected("DDATA")]_vars

\* Data for d2 was rejected while d1 was born and d2 was not.
C15_OtherDeviceRejected ==
    /\ pub_call = DeviceCall("DDATA", <<"d2">>, FALSE, None)
    /\ pub_devices = {<<"d1">>}
    /\ pub_born

\* parse has returned Ok for the topic.
Accepted == parsed # None /\ parsed[1].ok

\* parse has returned Ok(ParsedTopic::Sparkplug {..}) for the topic.
AcceptedSparkplug == Accepted /\ parsed[1].val.kind = "Sparkplug"

\* Segment k of the topic, counted from 0 as the topic format does.
Segment(k) == split(topic)[k + 1]
SegmentCount == Len(split(topic))

\* The eight Sparkplug message-type tokens.
SparkplugTokens ==
    {<<"NBIRTH">>, <<"NDEATH">>, <<"NDATA">>, <<"NCMD">>,
     <<"DBIRTH">>, <<"DDEATH">>, <<"DDATA">>, <<"DCMD">>}

\* C16: parse accepts a Sparkplug-shape topic only with exactly 4 or 5
\* segments; a topic of fewer than 4 segments (the two-segment STATE shape
\* aside) or of more than 5 segments is rejected.
C16_SegmentCount ==
    parsed # None =>
        /\ AcceptedSparkplug => SegmentCount \in {4, 5}
        /\ (SegmentCount < 4 /\ ~(SegmentCount = 2 /\ Segment(0) = <<"STATE">>))
              => ~parsed[1].ok
        /\ SegmentCount > 5 => ~parsed[1].ok

\* C17: parse accepts a topic that starts with spBv1.0 only if segment 2 is
\* one of the eight Sparkplug tokens; any other segment 2, STATE included,
\* is rejected.
C17_TypeToken ==
    (Accepted /\ Segment(0) = Namespace) => Segment(2) \in SparkplugTokens

\* C18: a device-level topic without a 5th segment and a node-level topic
\* with one are rejected, so an accepted Sparkplug topic has a device_id
\* exactly when its message type is device-level.
C18_DeviceIdPresence ==
    /\ (parsed # None /\ SegmentCount = 4 /\ Segment(0) = Namespace
          /\ Segment(2) \in {<<"DBIRTH">>, <<"DDEATH">>, <<"DDATA">>, <<"DCMD">>})
         => ~parsed[1].ok
    /\ (parsed # None /\ SegmentCount >= 5 /\ Segment(0) = Namespace
          /\ Segment(2) \in {<<"NBIRTH">>, <<"NDEATH">>, <<"NDATA">>, <<"NCMD">>})
         => ~parsed[1].ok
    /\ AcceptedSparkplug =>
         (device_id(parsed[1].val) # None <=>
             is_device_message(parsed[1].val.message_type))

\* C19: the accessors of an accepted Sparkplug topic return segment 1 as
\* group, the type named by segment 2, segment 3 as edge node, segment 4 as
\* device when there is one and None otherwise, and no host; those of an
\* accepted STATE/{h} topic return h as host and None for the rest.
C19_FieldExtraction ==
    Accepted =>
        LET p == parsed[1].val IN
        IF p.kind = "Sparkplug"
        THEN /\ group_id(p) = Some(Segment(1))
             /\ message_type(p) = from_str(Segment(2))
             /\ message_type(p) # None
             /\ as_str(message_type(p)[1]) = Segment(2)
             /\ edge_node_id(p) = Some(Segment(3))
             /\ device_id(p) =
                  IF SegmentCount >= 5 THEN Some(Segment(4)) ELSE None
             /\ host_id(p) = None
        ELSE /\ Segment(0) = <<"STATE">>
             /\ SegmentCount = 2
             /\ host_id(p) = Some(Segment(1))
             /\ message_type(p) = None
             /\ group_id(p) = None
             /\ edge_node_id(p) = None
             /\ device_id(p) = None

\* A device-level topic was accepted and its five fields are there to read.
C19_DeviceTopicRead ==
    /\ AcceptedSparkplug
    /\ topic = JoinSlash(<<Namespace, <<"g">>, <<"DDATA">>, <<"n">>, <<"d">>>>)
    /\ device_id(parsed[1].val) = Some(<<"d">>)
    /\ edge_node_id(parsed[1].val) = Some(<<"n">>)

\* The reasons parse gives for rejecting a topic.
Reasons ==
    {"too few parts", "wrong namespace", "unknown message type",
     "device_id required", "device_id forbidden"}

\* A ParsedTopic with every field of its variant filled.
Complete(p) ==
    IF p.kind = "Sparkplug"
    THEN /\ p.message_type \in MessageType
         /\ p.group_id = Segment(1)
         /\ p.edge_node_id = Segment(3)
         /\ is_device_message(p.message_type) => p.device_id # None
    ELSE p.kind = "State" /\ p.host_id = Segment(1)

\* C20: whatever the input, parse returns either a complete ParsedTopic or
\* InvalidTopic with one of its five reasons, and nothing in between.
C20_TotalAndUniform ==
    parsed # None =>
        \/ parsed[1].ok /\ Complete(parsed[1].val)
        \/ ~parsed[1].ok /\ parsed[1].reason \in Reasons
                         /\ parsed[1].val = [kind |-> "none"]

\* A device-level topic without its device id was rejected with a reason.
C20_MissingDeviceRejected ==
    /\ parsed # None
    /\ topic = JoinSlash(<<Namespace, <<"g">>, <<"DDATA">>, <<"n">>>>)
    /\ ~parsed[1].ok
    /\ parsed[1].reason = "device_id required"

\* The eight Sparkplug message types (STATE is the host's own message).
SparkplugTypes == MessageType \ {"State"}

\* The tokens of the node-level and of the device-level types.
NodeTokens   == {<<"NBIRTH">>, <<"NDEATH">>, <<"NDATA">>, <<"NCMD">>}
DeviceTokens == {<<"DBIRTH">>, <<"DDEATH">>, <<"DDATA">>, <<"DCMD">>}

\* The purposes and the levels a type answers true for.
PurposesOf(mt) ==
    {k \in {"birth", "death", "data", "command"} :
        \/ k = "birth"   /\ is_birth(mt)
        \/ k = "death"   /\ is_death(mt)
        \/ k = "data"    /\ is_data(mt)
        \/ k = "command" /\ is_command(mt)}
LevelsOf(mt) ==
    {l \in {"node", "device"} :
        \/ l = "node"   /\ is_node_message(mt)
        \/ l = "device" /\ is_device_message(mt)}

\* C21: each of the eight Sparkplug message types answers true for exactly
\* one of is_birth, is_death, is_data, is_command and for exactly one of
\* is_node_message, is_device_message, the N* types being node-level and
\* the D* types device-level; so does the Sparkplug type of an accepted topic.
C21_Classification ==
    /\ \A mt \in SparkplugTypes :
          /\ Cardinality(PurposesOf(mt)) = 1
          /\ Cardinality(LevelsOf(mt)) = 1
          /\ is_node_message(mt) <=> as_str(mt) \in NodeTokens
          /\ is_device_message(mt) <=> as_str(mt) \in DeviceTokens
    /\ (AcceptedSparkplug /\ parsed[1].val.message_type \in SparkplugTypes) =>
          LET mt == parsed[1].val.message_type IN
          /\ Cardinality(PurposesOf(mt)) = 1
          /\ LevelsOf(mt) = IF Segment(2) \in NodeTokens THEN {"node"}
                                                          ELSE {"device"}

\* A node command topic was accepted: its type is a command, node-level,
\* and nothing else.
C21_NodeCommandClassified ==
    /\ AcceptedSparkplug
    /\ Segment(2) = <<"NCMD">>
    /\ PurposesOf(parsed[1].val.message_type) = {"command"}
    /\ LevelsOf(parsed[1].val.message_type) = {"node"}

\* The parsed payload at hand and the number of metrics it holds.
ThePayload == payload[1].val
TheCount   == Len(ThePayload.metrics)

MetricAtCalled == Parsed /\ pl_read.op = "metric_at"

\* C22 as stated: metric_at(i) returns a Metric whenever 0 <= i < metric_count()
\* and Error::InvalidMetricIndex{index: i, count: metric_count()} whenever
\* i >= metric_count().
C22_MetricAtBoundsOnly ==
    MetricAtCalled =>
        IF pl_read.index < TheCount
        THEN pl_read.result.ok
        ELSE pl_read.result = PErr(InvalidMetricIndex(pl_read.index, TheCount))

\* The metric at index i carries a name or a string value that is no UTF-8.
NotUtf8At(i) ==
    LET raw == ThePayload.metrics[i + 1] IN
    \/ raw.name # None /\ BadUtf8 \in {raw.name[1][k] : k \in 1..Len(raw.name[1])}
    \/ /\ ~raw.is_null /\ raw.datatype \in {"String", "Text"}
       /\ raw.value.str # None
       /\ BadUtf8 \in {raw.value.str[1][k] : k \in 1..Len(raw.value.str[1])}

\* C22: metric_at(i) fails with InvalidMetricIndex{index: i, count} exactly
\* when i >= metric_count(); for 0 <= i < metric_count() it returns a Metric,
\* or Error::Utf8Error when the metric's name or string value is no UTF-8.
C22_MetricAtBounds ==
    MetricAtCalled =>
        IF pl_read.index < TheCount
        THEN IF NotUtf8At(pl_read.index)
             THEN pl_read.result = PErr(Utf8Error)
             ELSE /\ pl_read.result.ok
                  /\ pl_read.result.val.alias =
                        ThePayload.metrics[pl_read.index + 1].alias
        ELSE pl_read.result = PErr(InvalidMetricIndex(pl_read.index, TheCount))

\* metric_at(0) on a payload without metrics failed with index 0, count 0.
C22_EmptyPayloadIndexZero ==
    /\ MetricAtCalled
    /\ TheCount = 0
    /\ pl_read.index = 0
    /\ pl_read.result = PErr(InvalidMetricIndex(0, 0))

\* The number of items the latest iterator has yet to give.
ToCome ==
    IF Len(iter_items) >= TheCount THEN 0 ELSE TheCount - Len(iter_items)

\* C23: the iterator metrics() returns gives metric_count() items and then
\* None, its k-th item being metric_at(k); an iterator taken after a full or
\* a partial traversal starts again at index 0; size_hint is at every step
\* the number of items still to come.
C23_IteratorEquivalence ==
    (Parsed /\ iter # None) =>
        /\ iter[1].count = TheCount
        /\ \A k \in 1..Len(iter_items) :
              iter_items[k] = IF k <= TheCount
                              THEN Some(metric_at(ThePayload, k - 1))
                              ELSE None
        /\ size_hint(iter[1]) = <<ToCome, Some(ToCome)>>
        /\ pl_read.op = "metrics" =>
              iter[1].index = 0 /\ iter_items = <<>>

\* metrics() was called again after a traversal that had given some of the
\* items but not all: the new iterator has every item to come.
C23_RestartedMidway ==
    /\ Parsed
    /\ pl_read.op = "metrics"
    /\ pl_read.index > 0
    /\ pl_read.index < TheCount
    /\ size_hint(iter[1]) = <<TheCount, Some(TheCount)>>

AddOps == {"add_by_name", "add_string", "add_with_alias", "add_by_alias"}

\* The string, if there is one, holds a 0 byte.
HasNul(opt) == opt # None /\ \E k \in 1..Len(opt[1]) : opt[1][k] = Nul

\* C24: an add_* call whose name holds a 0 byte, and an add_string call
\* whose value holds one, returns Error::NulError and leaves the builder as
\* it was: nothing appended, nothing truncated, the earlier metrics intact.
C24_NulRejected ==
    [][(pb_call'.op \in AddOps /\ (HasNul(pb_call'.name) \/ HasNul(pb_call'.value)))
          => /\ pb_call'.result = PErr(NulError)
             /\ builder' = builder
             /\ pb_log' = pb_log]_vars

\* add_string was refused for the 0 byte in its value, after a metric had
\* been added, and the builder still holds that metric alone.
C24_ValueRefused ==
    /\ pb_call.op = "add_string"
    /\ ~HasNul(pb_call.name)
    /\ HasNul(pb_call.value)
    /\ pb_call.result = PErr(NulError)
    /\ Len(builder.metrics) = 1
    /\ Len(pb_log.adds) = 1

\* The builder was serialized with success and the bytes were parsed.
Reparsed == pb_call.op = "serialize" /\ pb_call.result.ok /\ payload # None

\* The parsed payload gives back what the caller set and added: as many
\* metrics as adds, each with the name, alias and value of its add, in the
\* order of the adds, and the timestamp and seq that were set.
GivesBack ==
    /\ payload[1].ok
    /\ metric_count(ThePayload) = Len(pb_log.adds)
    /\ \A k \in 1..Len(pb_log.adds) :
          LET r == metric_at(ThePayload, k - 1) IN
          /\ r.ok
          /\ r.val.name = pb_log.adds[k].name
          /\ r.val.alias = pb_log.adds[k].alias
          /\ r.val.value = pb_log.adds[k].value
    /\ pb_log.timestamp # None => timestamp(ThePayload) = pb_log.timestamp
    /\ pb_log.seq # None => Payload_seq(ThePayload) = pb_log.seq

EnvelopeRead == Parsed /\ pl_read.op \in {"timestamp", "seq", "uuid"}

\* C26: timestamp(), seq() and uuid() return None when the parsed bytes do
\* not hold the field, never a value such as 0 or ""; when the bytes hold
\* it they return Some of its value, Some(0) for a 0.
C26_AbsentIsNone ==
    EnvelopeRead =>
        LET field == LastOf(data[1], pl_read.op) IN
        IF field = None THEN pl_read.result = None
        ELSE /\ pl_read.result # None
             /\ pl_read.op = "uuid" => pl_read.result = Some(field[1].str)
             /\ pl_read.op # "uuid" => pl_read.result = Some(field[1].num)

\* timestamp() was read on a payload that came without one, and is None.
C26_TimestampAbsent ==
    /\ EnvelopeRead
    /\ pl_read.op = "timestamp"
    /\ LastOf(data[1], "timestamp") = None
    /\ LastOf(data[1], "seq") # None
    /\ pl_read.result = None

SerializeCalled == pb_call.op = "serialize"

\* C27: serialize returns Error::SerializeFailed when the encoding of the
\* builder is longer than the 65536-byte buffer, and otherwise Ok of the
\* encoding itself, whole and never empty, a builder without metrics
\* included.
C27_SerializeCapacity ==
    SerializeCalled =>
        IF ByteLen(encode(builder)) > MAX_PAYLOAD_SIZE
        THEN pb_call.result = PErr(SerializeFailed(MAX_PAYLOAD_SIZE))
        ELSE /\ pb_call.result = POk(encode(builder))
             /\ pb_call.result.val # <<>>
             /\ ByteLen(pb_call.result.val) = ByteLen(encode(builder))
             /\ data = Some(encode(builder))

\* serialize refused a builder whose two string metrics do not fit.
C27_TooBigRefused ==
    /\ SerializeCalled
    /\ Len(builder.metrics) = 2
    /\ ByteLen(encode(builder)) > MAX_PAYLOAD_SIZE
    /\ ~pb_call.result.ok
    /\ data = None

\* C28: every Metric metric_at returns, directly or as an item of the
\* iterator, carries a name, an alias or both, and so does every metric an
\* add_* call puts in a builder.
C28_NameOrAlias ==
    /\ (MetricAtCalled /\ pl_read.result.ok) =>
          (pl_read.result.val.name # None \/ pl_read.result.val.alias # None)
    /\ \A k \in 1..Len(iter_items) :
          (iter_items[k] # None /\ iter_items[k][1].ok) =>
              (iter_items[k][1].val.name # None \/ iter_items[k][1].val.alias # None)
    /\ \A k \in 1..Len(builder.metrics) :
          builder.metrics[k].name # None \/ builder.metrics[k].alias # None

\* ---- the monitor's alias registry ---------------------------------------

\* The node key a message is about, and its message type.
MonKeyOf(msg) ==
    LET t == parse_topic(msg) IN
    IF t.ok /\ message_type(t.val) # None /\ edge_node_id(t.val) # None
    THEN Some(node_key(MonGroup, edge_node_id(t.val)[1])) ELSE None
MonTypeOf(msg) == message_type(parse_topic(msg).val)[1]

\* The metrics a message's payload yields, none when it does not parse.
MetricsOf(msg) ==
    LET p == parse_payload(msg) IN
    IF p.ok THEN flattened_metrics(p.val) ELSE <<>>

\* The <<alias, name>> pairs a message's metrics carry.
BindingsOf(msg) ==
    LET ms == MetricsOf(msg) IN
    {<<ms[i].alias[1], ms[i].name[1]>> :
        i \in {j \in 1..Len(ms) : ms[j].name # None /\ ms[j].alias # None}}

\* The positions in the log of the births of the node with this key.
BirthsOf(log, k) ==
    {i \in 1..Len(log) :
        MonKeyOf(log[i]) = Some(k) /\ is_birth(MonTypeOf(log[i]))}

\* The pairs some birth of that node bound.
BoundByBirth(log, k) == UNION {BindingsOf(log[i]) : i \in BirthsOf(log, k)}

\* C29: when the monitor handles a data message, every name whose recorded
\* value changes is named by a metric of the payload, or is the name a birth
\* of that same node bound to the alias of an alias-only metric of the
\* payload; an alias-only metric whose alias no birth of that node bound
\* changes no recorded value.
C29_UnboundAliasUnresolved ==
    [][(mon_log' # mon_log /\ MonKeyOf(mon_log'[Len(mon_log')]) # None
        /\ is_data(MonTypeOf(mon_log'[Len(mon_log')])))
       => LET msg    == mon_log'[Len(mon_log')]
              k      == MonKeyOf(msg)[1]
              before == IF k \in DOMAIN mon_nodes
                        THEN mon_nodes[k].metrics ELSE <<>>
              after  == mon_nodes'[k].metrics
              ms     == MetricsOf(msg)
          IN  \A x \in DOMAIN after :
                 (x \notin DOMAIN before \/ before[x] # after[x])
                 => \E i \in 1..Len(ms) :
                       \/ ms[i].name = Some(x)
                       \/ /\ ms[i].name = None
                          /\ ms[i].alias # None
                          /\ <<ms[i].alias[1], x>> \in BoundByBirth(mon_log, k)
      ]_vars

\* Node n2's birth bound alias 2, node n1's birth bound alias 1 only, and a
\* data message of n1 with an alias-only metric of alias 2 left n1 with the
\* value of its birth and no other.
C29_OtherNodesAliasIgnored ==
    /\ Len(mon_log) = 3
    /\ mon_log[1] = Message(NodeTopic("NBirth", MonOther),
                            PayloadBytes(Some(0), <<BirthMetric(<<"b">>, 2)>>))
    /\ mon_log[2] = Message(NodeTopic("NBirth", MonNode),
                            PayloadBytes(Some(0), <<BirthMetric(<<"a">>, 1)>>))
    /\ mon_log[3] = Message(NodeTopic("NData", MonNode),
                            PayloadBytes(Some(1), <<DataMetric(2)>>))
    /\ DOMAIN mon_nodes[node_key(MonGroup, MonNode)].metrics = {<<"a">>}
    /\ mon_nodes[node_key(MonGroup, MonNode)].metrics[<<"a">>] = 7
    /\ mon_nodes[node_key(MonGroup, MonNode)].last_seq = Some(1)

\* The positions in the log of the deaths of the node with this key.
DeathsOf(log, k) ==
    {i \in 1..Len(log) :
        MonKeyOf(log[i]) = Some(k) /\ is_death(MonTypeOf(log[i]))}

\* The pairs of the node's most recent birth, none before its first birth
\* and none once a death followed that birth.
LatestBirthBindings(log, k) ==
    LET births == BirthsOf(log, k) IN
    IF births = {} THEN {}
    ELSE LET latest == CHOOSE i \in births : \A j \in births : j <= i IN
         IF \E d \in DeathsOf(log, k) : d > latest THEN {}
         ELSE BindingsOf(log[latest])

\* C30: after any sequence of birth, data and death messages, the alias
\* registry the monitor holds for a node is exactly the set of alias/name
\* pairs of that node's most recent birth, and is empty once a death has
\* followed that birth.
C30_RegistryIsLatestBirth ==
    \A k \in DOMAIN mon_nodes :
        {<<a, mon_nodes[k].aliases[a]>> : a \in DOMAIN mon_nodes[k].aliases}
            = LatestBirthBindings(mon_log, k)

\* ---- the scope of an alias binding --------------------------------------

\* The device a message is about, None for a node-level message.
MonDeviceOf(msg) == device_id(parse_topic(msg).val)

\* The pairs bound by the births of one identity: the node with this key
\* and this device, or the node itself when the device is None.
BoundByBirthOf(log, k, dev) ==
    UNION {BindingsOf(log[i]) :
             i \in {j \in BirthsOf(log, k) : MonDeviceOf(log[j]) = dev}}

\* C31: alias bindings are scoped per (group, edge node, device): when the
\* monitor handles a data message, a value recorded for an alias-only metric
\* goes under a name that a birth of the same identity (the same device, or
\* the node itself for node-level data) or the node's own NBIRTH bound to
\* that alias, never under a name that only the DBIRTH of another device
\* bound to it.
C31_ScopedPerDevice ==
    [][(mon_log' # mon_log /\ MonKeyOf(mon_log'[Len(mon_log')]) # None
        /\ is_data(MonTypeOf(mon_log'[Len(mon_log')])))
       => LET msg    == mon_log'[Len(mon_log')]
              k      == MonKeyOf(msg)[1]
              before == IF k \in DOMAIN mon_nodes
                        THEN mon_nodes[k].metrics ELSE <<>>
              after  == mon_nodes'[k].metrics
              ms     == MetricsOf(msg)
          IN  \A x \in DOMAIN after :
                 (x \notin DOMAIN before \/ before[x] # after[x])
                 => \E i \in 1..Len(ms) :
                       \/ ms[i].name = Some(x)
                       \/ /\ ms[i].name = None
                          /\ ms[i].alias # None
                          /\ <<ms[i].alias[1], x>>
                                \in BoundByBirthOf(mon_log, k, MonDeviceOf(msg))
                                    \cup BoundByBirthOf(mon_log, k, None)
      ]_vars

\* ---- disconnect ---------------------------------------------------------

\* The disconnect calls that close the subscriber.
SubscriberClosers ==
    {"Subscriber::disconnect", "TortureTestSubscriber::disconnect"}

\* The subscriber's disconnect had returned before the k-th dispatch.
DispatchedAfterDisconnect(k) ==
    \E i \in 1..cb_log[k].after : disc_log[i].op \in SubscriberClosers

StateBefore(n) ==
    IF n \in DOMAIN node_stats THEN node_stats[n].state ELSE NewNodeStats.state
StateAfter(n) == node_stats'[n].state

\* What changes the state of n in this step: the type of the message from
\* n it handles, the sweep's timeout, or the sweep's mark after it sent a
\* rebirth command.
CauseOf(n) ==
    IF MessageStepFrom(n)
    THEN message_type(parse_topic(last_msg'[1].msg).val)[1]
    ELSE IF TimeoutStepOf(n) THEN "timeout"
    ELSE IF sweep_pc = "mark" THEN "wake attempt"
    ELSE "none"

\* The state changes of this step, each with its cause.
Transitions ==
    {<<StateBefore(n), StateAfter(n), CauseOf(n)>> :
        n \in {x \in DOMAIN node_stats' : StateBefore(x) # StateAfter(x)}}

\* The six transitions of the state diagram.
DiagramTransitions ==
    {<<"Unknown", "Awake", "NBirth">>,
     <<"Awake", "Sleeping", "NDeath">>,
     <<"Sleeping", "WakePending", "NData">>,
     <<"Unknown", "WakePending", "NData">>,
     <<"WakePending", "Awake", "NBirth">>,
     <<"WakePending", "Sleeping", "timeout">>}

\* An NBIRTH also wakes a Sleeping node, and an NDEATH also puts an Unknown
\* node and a WakePending node to sleep.
ArmTransitions ==
    {<<"Sleeping", "Awake", "NBirth">>,
     <<"Unknown", "Sleeping", "NDeath">>,
     <<"WakePending", "Sleeping", "NDeath">>}

\* The sweep's retry: a Sleeping node it sent a rebirth command for.
RetryTransitions == {<<"Sleeping", "WakePending", "wake attempt">>}

\* C33: every change of a node's state is one of the six transitions of the
\* diagram, with the cause the diagram gives, and no state ever returns to
\* Unknown.  Checked in a weaker form that also admits what the arms and the
\* retry do by design: an NBIRTH wakes a Sleeping node, an NDEATH puts an
\* Unknown or WakePending node to sleep, and the sweep's wake attempt makes a
\* Sleeping node WakePending.
C33_AllowedTransitions ==
    [][Transitions \subseteq
          DiagramTransitions \cup ArmTransitions \cup RetryTransitions]_vars

\* ---- the backoff's arithmetic --------------------------------------------

\* C34: for every wake_attempt_count a node the sweep looks at can have, the
\* backoff the sweep computes is min(60, 5 * 2^wake_attempt_count), which
\* lies in [5, 60]; the i32 computation does not overflow and the sweep does
\* not panic.
C34_BackoffInBounds ==
    /\ ~panicked
    /\ \A n \in DOMAIN node_stats :
          (sleeping(node_stats[n]) \/ wake_pending(node_stats[n]))
          => LET c == node_stats[n].wake_attempt_count IN
             /\ ~overflow_table[c]
             /\ backoff_table[c] = ScheduledBackoff(c)
             /\ backoff_table[c] >= BackoffBase
             /\ backoff_table[c] <= BackoffCap

\* ---- stale deaths --------------------------------------------------------

\* This step handles an NDEATH of n that carries a bdSeq other than the one
\* recorded at n's latest NBIRTH.
StaleDeathStep(n) ==
    /\ messages_received' = messages_received + 1
    /\ last_msg' # None
    /\ last_msg'[1].msg.topic = NodeTopic("NDeath", n)
    /\ last_msg'[1].msg.payload.parse_ok
    /\ last_msg'[1].msg.payload.bd_seq # None
    /\ last_msg'[1].msg.payload.bd_seq[1] # node_stats[n].current_bd_seq

\* C35: an NDEATH whose bdSeq differs from the current_bd_seq recorded at
\* the node's latest NBIRTH leaves an Awake node Awake.
C35_StaleDeathIgnored ==
    [][\A n \in DOMAIN node_stats :
         (online(node_stats[n]) /\ node_stats[n].birth_count > 0
          /\ StaleDeathStep(n))
         => node_stats'[n].state = "Awake"]_vars

\* The entries of run_log that are attempts to publish a node birth.
IsBirthAttempt(e) == e.op \in {"NBIRTH", "REBIRTH"}

\* The position of the latest node birth attempt before entry i, 0 if none.
BirthAttemptBefore(i) ==
    LET js == {j \in 1..(i - 1) : IsBirthAttempt(run_log[j])}
    IN IF js = {} THEN 0 ELSE CHOOSE j \in js : \A k \in js : k <= j

LoopPositions ==
    {"load", "rebirth", "rebirth_motor", "rebirth_sensor", "clear", "data"}

\* A rebirth request received while the loop ran that no published node
\* birth has followed yet.
Unanswered ==
    \E k \in 1..Len(run_log) :
       /\ run_log[k].op = "NCMD"
       /\ run_log[k].at \in LoopPositions
       /\ \A j \in (k + 1)..Len(run_log) :
             ~(IsBirthAttempt(run_log[j]) /\ run_log[j].ok)

\* A call on the publisher failed, or the loop was left.
Failed ==
    \/ run_pc = "stopped"
    \/ \E k \in 1..Len(run_log) : ~run_log[k].ok

\* C40: with a main thread that keeps running and a transport that fails
\* no call, every rebirth request received while the loop runs is
\* eventually followed by a node birth published after it.
C40_RebirthRequestServed == Unanswered ~> (~Unanswered \/ Failed)

\* C39: with the publisher's node messages delivered to the tracker in
\* order, none lost and none repeated, the tracker counts no sequence
\* error, whatever the number of NDATA and of rebirths.
C39_NoFalseGaps == sequence_errors = 0

\* C39 witness: after a rebirth the tracker has handled the NDATA with
\* seq 0 that follows the one with seq 255.
C39_WrapAfterRebirth ==
    /\ sequence_errors = 0
    /\ LinkNode \in DOMAIN node_stats
    /\ node_stats[LinkNode].birth_count >= 2
    /\ last_msg # None
    /\ last_msg[1].msg.topic = NodeTopic("NData", LinkNode)
    /\ last_msg[1].msg.payload.seq = Some(0)
    /\ last_msg[1].prev = "Awake"
    /\ last_msg[1].prev_seq = 255

\* A WakePending entry has a recorded last_wake_attempt and a
\* wake_attempt_count of at least 1; an Awake entry has a count of 0.
EntryConsistent ==
    \A n \in DOMAIN node_stats :
       /\ wake_pending(node_stats[n]) =>
             /\ node_stats[n].last_wake_attempt # None
             /\ node_stats[n].wake_attempt_count >= 1
       /\ online(node_stats[n]) => node_stats[n].wake_attempt_count = 0

IsWakePending(n) == n \in DOMAIN node_stats /\ wake_pending(node_stats[n])

\* C38: the entries of the node map are consistent in every state, and
\* with the sweep and the clock running no node stays WakePending for
\* ever: it leaves the state by an NBIRTH or by the sweep's timeout.
C38_WakePendingEnds ==
    /\ []EntryConsistent
    /\ \A n \in Nodes : IsWakePending(n) ~> ~IsWakePending(n)

\* The datatypes whose MetricValue variant has the datatype's name.
SameNamed ==
    {"Int8", "Int16", "Int32", "Int64", "UInt8", "UInt16", "UInt32", "UInt64",
     "Float", "Double", "Boolean"}

\* C37: a metric returned by metric_at that is not flagged null carries
\* the MetricValue variant of its datatype (String for String and Text,
\* some variant other than Null for DateTime), and Null is returned only
\* when the value is absent: the metric is flagged null, its string is a
\* null pointer, or its datatype is not known.
C37_ValueMatchesTag ==
    (MetricAtCalled /\ pl_read.result.ok) =>
       LET raw == ThePayload.metrics[pl_read.index + 1]
           m   == pl_read.result.val
       IN  /\ ~raw.is_null =>
                /\ m.datatype \in SameNamed => m.value.variant = m.datatype
                /\ (m.datatype \in {"String", "Text"} /\ raw.value.str # None)
                      => m.value.variant = "String"
                /\ m.datatype = "DateTime" => m.value.variant # "Null"
           /\ m.value.variant = "Null" =>
                \/ raw.is_null
                \/ m.datatype = "Unknown"
                \/ m.datatype \in {"String", "Text"} /\ raw.value.str = None

====
